---- MODULE Spec2Model ----
(***************************************************************************)
(* A model of cassiopeia.data.CassiopeiaTree: the networkx DiGraph held in *)
(* self.__network (node order, ordered adjacency, the "time", "length" and *)
(* "character_states" attributes), the memo table self.__cache, the leaf   *)
(* indexed tables, and one action per public method.  A method that raises *)
(* keeps whatever it had written before the raise.                         *)
(***************************************************************************)
EXTENDS Integers, Sequences, FiniteSets, TLC

VARIABLES network, cache, current_character_matrix,
          original_character_matrix, cell_meta, dissimilarity_map,
          op, allOk, calls, held, frame

vars == <<network, cache, current_character_matrix,
          original_character_matrix, cell_meta, dissimilarity_map,
          op, allOk, calls, held, frame>>

\* ------------------------------------------------------------------ bounds
\* Number of node names the callers draw from.
MaxNodes == 4
\* Largest time / branch length a caller passes or a setter may produce.
MaxTime == 2
\* Number of method calls made on one tree object.
MaxCalls == 2

NodeNames == <<"r", "a", "b", "c", "d", "e", "f">>
Names == {NodeNames[i] : i \in 1..MaxNodes}
Times == 0..MaxTime

\* ----------------------------------------------------------------- helpers
SeqToSet(s) == {s[i] : i \in 1..Len(s)}

Without(s, x) == SelectSeq(s, LAMBDA y : y # x)

RECURSIVE Flatten(_)
Flatten(ss) == IF Len(ss) = 0 THEN <<>> ELSE Head(ss) \o Flatten(Tail(ss))

\* f with key k bound to v (a Python d[k] = v on a dict)
Put(f, k, v) == [x \in (DOMAIN f) \cup {k} |-> IF x = k THEN v ELSE f[x]]

\* f without the keys in ks
Drop(f, ks) == [x \in (DOMAIN f) \ ks |-> f[x]]

\* Python None / a present value
None == <<>>
Some(v) == <<v>>
IsNone(o) == o = <<>>
Val(o) == o[1]

\* ------------------------------------------- the graph (self.__network)
\* network.nodes  : node names in insertion order
\* network.succ   : node -> its successors in insertion order
\* network.time   : the "time" node attribute, where set
\* network.length : the "length" edge attribute, where set
\* network.states : the "character_states" node attribute, where set
NodeSet(g) == SeqToSet(g.nodes)

has_node(g, n) == n \in NodeSet(g)

EdgeSeq(g) == Flatten([i \in 1..Len(g.nodes) |->
                 [j \in 1..Len(g.succ[g.nodes[i]]) |->
                     <<g.nodes[i], g.succ[g.nodes[i]][j]>>]])

EdgeSet(g) == SeqToSet(EdgeSeq(g))

Preds(g, n) == {u \in NodeSet(g) : n \in SeqToSet(g.succ[u])}

children(g, n) == g.succ[n]

parent(g, n) == CHOOSE u \in Preds(g, n) : TRUE

is_leaf(g, n) == has_node(g, n) /\ Len(g.succ[n]) = 0

is_root(g, n) == has_node(g, n) /\ Preds(g, n) = {}

\* out_degree of a name that is no node is a degree view, which `> 0`
\* cannot compare: the call raises TypeError
is_internal_node(g, n) ==
  [ok |-> has_node(g, n), val |-> has_node(g, n) /\ Len(g.succ[n]) > 0]

get_time(g, n) == g.time[n]

remove_node(g, n) ==
  [nodes  |-> Without(g.nodes, n),
   succ   |-> [u \in NodeSet(g) \ {n} |-> Without(g.succ[u], n)],
   time   |-> Drop(g.time, {n}),
   length |-> [e \in {x \in DOMAIN g.length : x[1] # n /\ x[2] # n}
                 |-> g.length[e]],
   states |-> Drop(g.states, {n})]

add_edge(g, u, v) ==
  LET ns1 == IF has_node(g, u) THEN g.nodes ELSE Append(g.nodes, u)
      ns2 == IF v \in SeqToSet(ns1) THEN ns1 ELSE Append(ns1, v)
      old(x) == IF has_node(g, x) THEN g.succ[x] ELSE <<>>
  IN [g EXCEPT
        !.nodes = ns2,
        !.succ  = [x \in SeqToSet(ns2) |->
                     IF x = u /\ v \notin SeqToSet(old(u))
                       THEN Append(old(u), v) ELSE old(x)]]

set_length(g, u, v, l) == [g EXCEPT !.length = Put(g.length, <<u, v>>, l)]

set_node_time(g, n, t) == [g EXCEPT !.time = Put(g.time, n, t)]

set_node_states(g, n, s) == [g EXCEPT !.states = Put(g.states, n, s)]

\* networkx depth first traversals, following the adjacency order
RECURSIVE dfs_preorder_nodes(_, _)
dfs_preorder_nodes(g, n) ==
  <<n>> \o Flatten([i \in 1..Len(g.succ[n]) |->
                      dfs_preorder_nodes(g, g.succ[n][i])])

RECURSIVE dfs_postorder_nodes(_, _)
dfs_postorder_nodes(g, n) ==
  Flatten([i \in 1..Len(g.succ[n]) |->
             dfs_postorder_nodes(g, g.succ[n][i])]) \o <<n>>

RECURSIVE dfs_edges(_, _)
dfs_edges(g, n) ==
  Flatten([i \in 1..Len(g.succ[n]) |->
             <<<<n, g.succ[n][i]>>>> \o dfs_edges(g, g.succ[n][i])])

\* --------------------------------------------------- the memo (self.__cache)
\* A key that is absent is None; "ancestors" and "distances" are kept as the
\* partial maps node -> list and (node1, node2) -> distance, an absent outer
\* key being the empty map.
EmptyCache ==
  [root |-> None, leaves |-> None, internal_nodes |-> None, nodes |-> None,
   edges |-> None, ancestors |-> <<>>, subtree |-> None, distances |-> <<>>]

\* What each structural query computes on a cache miss.
fresh_roots(g) == SelectSeq(g.nodes, LAMBDA n : is_root(g, n))
fresh_leaves(g) == SelectSeq(g.nodes, LAMBDA n : is_leaf(g, n))
fresh_internal_nodes(g) == SelectSeq(g.nodes, LAMBDA n : is_internal_node(g, n).val)
fresh_nodes(g) == g.nodes
fresh_edges(g) == EdgeSeq(g)

RECURSIVE fresh_ancestors(_, _)
fresh_ancestors(g, n) ==
  IF is_root(g, n) THEN <<>>
  ELSE <<parent(g, n)>> \o fresh_ancestors(g, parent(g, n))

RECURSIVE fresh_subtree(_, _)
fresh_subtree(g, n) ==
  IF is_leaf(g, n) THEN <<n>>
  ELSE Flatten([i \in 1..Len(g.succ[n]) |-> fresh_subtree(g, g.succ[n][i])])

\* The cached properties: each returns the value handed to the caller, the
\* cache after the call, and whether the call returned normally.
root(g, c) ==
  IF ~IsNone(c.root) THEN [val |-> Val(c.root), cache |-> c, ok |-> TRUE]
  ELSE IF Len(fresh_roots(g)) = 0 THEN [val |-> "", cache |-> c, ok |-> FALSE]
  ELSE [val |-> fresh_roots(g)[1],
        cache |-> [c EXCEPT !.root = Some(fresh_roots(g)[1])], ok |-> TRUE]

leaves(g, c) ==
  LET c1 == IF IsNone(c.leaves)
              THEN [c EXCEPT !.leaves = Some(fresh_leaves(g))] ELSE c
  IN [val |-> Val(c1.leaves), cache |-> c1, ok |-> TRUE]

internal_nodes(g, c) ==
  LET c1 == IF IsNone(c.internal_nodes)
              THEN [c EXCEPT !.internal_nodes = Some(fresh_internal_nodes(g))]
              ELSE c
  IN [val |-> Val(c1.internal_nodes), cache |-> c1, ok |-> TRUE]

nodes(g, c) ==
  LET c1 == IF IsNone(c.nodes)
              THEN [c EXCEPT !.nodes = Some(fresh_nodes(g))] ELSE c
  IN [val |-> Val(c1.nodes), cache |-> c1, ok |-> TRUE]

edges(g, c) ==
  LET c1 == IF IsNone(c.edges)
              THEN [c EXCEPT !.edges = Some(fresh_edges(g))] ELSE c
  IN [val |-> Val(c1.edges), cache |-> c1, ok |-> TRUE]

get_all_ancestors(g, c, n) ==
  IF n \in DOMAIN c.ancestors
    THEN [val |-> c.ancestors[n], cache |-> c, ok |-> TRUE]
  ELSE IF ~has_node(g, n)
    \* the empty list is stored before the walk to the root raises
    THEN [val |-> <<>>, cache |-> [c EXCEPT !.ancestors = Put(c.ancestors, n, <<>>)],
          ok |-> FALSE]
  ELSE [val |-> fresh_ancestors(g, n),
        cache |-> [c EXCEPT !.ancestors = Put(c.ancestors, n, fresh_ancestors(g, n))],
        ok |-> TRUE]

leaves_in_subtree(g, c, n) ==
  LET r  == root(g, c)
      c1 == IF ~IsNone(c.subtree) THEN c
            ELSE IF ~r.ok \/ ~has_node(g, r.val)
              THEN [c EXCEPT !.subtree = Some(<<>>)]
            ELSE [r.cache EXCEPT !.subtree =
                    Some([x \in SeqToSet(dfs_postorder_nodes(g, r.val))
                            |-> fresh_subtree(g, x)])]
  IN IF IsNone(c.subtree) /\ (~r.ok \/ ~has_node(g, r.val))
       THEN [val |-> <<>>, cache |-> c1, ok |-> FALSE]
     ELSE IF n \in DOMAIN Val(c1.subtree)
       THEN [val |-> Val(c1.subtree)[n], cache |-> c1, ok |-> TRUE]
     ELSE [val |-> <<>>, cache |-> c1, ok |-> FALSE]

\* ------------------------------------------------------ LCA and distances
SelfAndAncestors(g, n) == <<n>> \o fresh_ancestors(g, n)

\* networkx tree_all_pairs_lowest_common_ancestor, for one pair
lca_of_pair(g, a, b) ==
  LET up == SelfAndAncestors(g, a)
      common == SelectSeq(up, LAMBDA x : x \in SeqToSet(SelfAndAncestors(g, b)))
  IN common[1]

\* a reduction that stops after the first round of pairwise LCAs
find_lca_loop_one_round(g, S) ==
  IF Cardinality(S) <= 1 THEN CHOOSE x \in S : TRUE
  ELSE CHOOSE x \in {lca_of_pair(g, p[1], p[2]) :
                       p \in {q \in S \X S : q[1] # q[2]}} : TRUE

\* one round that also pairs every node with itself
pairwise_lcas_with_replacement(g, S) ==
  {lca_of_pair(g, p[1], p[2]) : p \in S \X S}

\* one round of the loop of find_lca: the LCAs of all 2-combinations of S
pairwise_lcas(g, S) ==
  {lca_of_pair(g, p[1], p[2]) : p \in {q \in S \X S : q[1] # q[2]}}

RECURSIVE find_lca_loop(_, _)
find_lca_loop(g, S) ==
  IF Cardinality(S) <= 1 THEN CHOOSE x \in S : TRUE
  ELSE find_lca_loop(g, pairwise_lcas(g, S))

\* find_lca that accepts a single distinct node
find_lca_of_one_or_more(g, c, S) ==
  LET r == root(g, c)
  IN IF Cardinality(S) < 1 THEN [val |-> "", cache |-> c, ok |-> FALSE]
     ELSE IF ~r.ok \/ ~(S \subseteq NodeSet(g))
       THEN [val |-> "", cache |-> r.cache, ok |-> FALSE]
     ELSE [val |-> find_lca_loop(g, S), cache |-> r.cache, ok |-> TRUE]

\* S: the set of the arguments of find_lca; find_lcas_of_pairs reads the root
find_lca(g, c, S) ==
  LET r == root(g, c)
  IN IF Cardinality(S) < 2 THEN [val |-> "", cache |-> c, ok |-> FALSE]
     ELSE IF ~r.ok \/ ~(S \subseteq NodeSet(g))
       THEN [val |-> "", cache |-> r.cache, ok |-> FALSE]
     ELSE [val |-> find_lca_loop(g, S), cache |-> r.cache, ok |-> TRUE]

InnerDistances(c, n) == IF n \in DOMAIN c.distances THEN c.distances[n] ELSE <<>>

get_distance(g, c, node1, node2) ==
  IF node1 \in DOMAIN c.distances /\ node2 \in DOMAIN c.distances[node1]
    THEN [val |-> c.distances[node1][node2], cache |-> c, ok |-> TRUE]
  ELSE
    LET d0 == InnerDistances(c, node1)
        l  == find_lca(g, c, {node1, node2})
        c1 == IF node1 = node2 THEN c ELSE l.cache
        v  == IF node1 = node2 THEN 0
              ELSE (get_time(g, node1) - get_time(g, l.val))
                   + (get_time(g, node2) - get_time(g, l.val))
    IN IF node1 # node2 /\ ~l.ok
         THEN [val |-> 0,
               cache |-> [c1 EXCEPT !.distances = Put(c.distances, node1, d0)],
               ok |-> FALSE]
         ELSE [val |-> v,
               cache |-> [c1 EXCEPT !.distances =
                            Put(c.distances, node1, Put(d0, node2, v))],
               ok |-> TRUE]

\* the upward walk of get_distances over the (cached) ancestor list
RECURSIVE distances_via_ancestors(_, _, _, _, _)
distances_via_ancestors(g, d, anc, node_time, i) ==
  IF i > Len(anc) THEN [d |-> d, ok |-> TRUE]
  ELSE IF ~has_node(g, anc[i]) THEN [d |-> d, ok |-> FALSE]
  ELSE
    LET ancestor_time == get_time(g, anc[i])
        ancestor_distance == node_time - ancestor_time
        d1 == Put(d, anc[i], ancestor_distance)
        pre == SeqToSet(dfs_preorder_nodes(g, anc[i]))
        d2 == [x \in (DOMAIN d1) \cup pre |->
                 IF x \in DOMAIN d1 THEN d1[x]
                 ELSE ancestor_distance + (get_time(g, x) - ancestor_time)]
    IN distances_via_ancestors(g, d2, anc, node_time, i + 1)

get_distances(g, c, node, leaves_only) ==
  LET hit == node \in DOMAIN c.distances
      ns  == nodes(g, c)
      miss == ~hit \/ \E x \in SeqToSet(ns.val) : x \notin DOMAIN c.distances[node]
      c0  == IF hit THEN ns.cache ELSE c
      d0  == InnerDistances(c, node)
      desc == SeqToSet(dfs_postorder_nodes(g, node))
      d1  == [x \in (DOMAIN d0) \cup desc |->
                IF x \in desc THEN get_time(g, x) - get_time(g, node) ELSE d0[x]]
      anc == get_all_ancestors(g, c0, node)
      up  == distances_via_ancestors(g, d1, anc.val, get_time(g, node), 1)
      c1  == IF ~miss THEN c0
             ELSE IF ~has_node(g, node)
               THEN [c0 EXCEPT !.distances = Put(c0.distances, node, d0)]
             ELSE IF is_root(g, node)
               THEN [c0 EXCEPT !.distances = Put(c0.distances, node, d1)]
             ELSE [anc.cache EXCEPT !.distances = Put(c0.distances, node, up.d)]
      okay == ~miss \/ (has_node(g, node) /\ (is_root(g, node) \/ up.ok))
      full == IF node \in DOMAIN c1.distances THEN c1.distances[node] ELSE <<>>
  IN [val |-> IF ~okay THEN <<>>
              ELSE IF leaves_only
                THEN [x \in {y \in DOMAIN full : is_leaf(g, y)} |-> full[x]]
              ELSE full,
      cache |-> c1, ok |-> okay]

\* --------------------------------------------- times and branch lengths
\* A Python dict argument is the sequence of its (key, value) items.
DictKeys(d) == {d[i][1] : i \in 1..Len(d)}
DictGet(d, k) == (CHOOSE i \in 1..Len(d) : d[i][1] = k)
DictVal(d, k) == d[DictGet(d, k)][2]

\* set_time refusing a time equal to the time of the parent
set_time_strict(g, node, new_time) ==
  IF ~has_node(g, node) \/ is_root(g, node) THEN [net |-> g, ok |-> FALSE]
  ELSE IF new_time <= get_time(g, parent(g, node))
    THEN [net |-> g, ok |-> FALSE]
  ELSE IF \E i \in 1..Len(children(g, node)) :
            new_time > get_time(g, children(g, node)[i])
    THEN [net |-> g, ok |-> FALSE]
  ELSE
    LET g1 == set_node_time(g, node, new_time)
        kids == SeqToSet(children(g, node))
    IN [net |-> [g1 EXCEPT !.length =
                   [e \in (DOMAIN g.length) |->
                      IF e = <<parent(g, node), node>>
                        THEN new_time - get_time(g1, parent(g, node))
                      ELSE IF e[1] = node /\ e[2] \in kids
                        THEN get_time(g1, e[2]) - new_time
                      ELSE g.length[e]]],
        ok |-> TRUE]

set_time(g, node, new_time) ==
  IF ~has_node(g, node) THEN [net |-> g, ok |-> FALSE]
  ELSE IF ~is_root(g, node) /\ new_time < get_time(g, parent(g, node))
    THEN [net |-> g, ok |-> FALSE]
  ELSE IF \E i \in 1..Len(children(g, node)) :
            new_time > get_time(g, children(g, node)[i])
    THEN [net |-> g, ok |-> FALSE]
  ELSE
    LET g1 == set_node_time(g, node, new_time)
        kids == SeqToSet(children(g, node))
    IN IF is_root(g, node)
         \* `parent` is bound only for a non-root node: the incoming-edge
         \* assignment raises after the time has been stored
         THEN [net |-> g1, ok |-> FALSE]
         ELSE [net |-> [g1 EXCEPT !.length =
                   [e \in (DOMAIN g.length) \cup {<<parent(g, node), node>>}
                                           \cup {<<node, k>> : k \in kids} |->
                      IF e = <<parent(g, node), node>>
                        THEN new_time - get_time(g1, parent(g, node))
                      ELSE IF e[1] = node /\ e[2] \in kids
                        THEN get_time(g1, e[2]) - new_time
                      ELSE g.length[e]]],
               ok |-> TRUE]

\* the edge loop of set_times: each edge is checked and then written
RECURSIVE set_times_edges(_, _, _, _)
set_times_edges(g, es, time_dict, i) ==
  IF i > Len(es) THEN [net |-> g, ok |-> TRUE]
  ELSE IF es[i][1] \notin DictKeys(time_dict) \/ es[i][2] \notin DictKeys(time_dict)
    THEN [net |-> g, ok |-> FALSE]
  ELSE IF DictVal(time_dict, es[i][1]) > DictVal(time_dict, es[i][2])
    THEN [net |-> g, ok |-> FALSE]
  ELSE IF es[i] \notin EdgeSet(g) THEN [net |-> g, ok |-> FALSE]
  ELSE set_times_edges(
         set_length(g, es[i][1], es[i][2],
                    DictVal(time_dict, es[i][2]) - DictVal(time_dict, es[i][1])),
         es, time_dict, i + 1)

\* the item loop of set_times
RECURSIVE set_times_nodes(_, _, _)
set_times_nodes(g, time_dict, i) ==
  IF i > Len(time_dict) THEN [net |-> g, ok |-> TRUE]
  ELSE IF ~has_node(g, time_dict[i][1]) THEN [net |-> g, ok |-> FALSE]
  ELSE set_times_nodes(set_node_time(g, time_dict[i][1], time_dict[i][2]),
                       time_dict, i + 1)

set_times(g, c, time_dict) ==
  LET es == edges(g, c)
      r1 == set_times_edges(g, es.val, time_dict, 1)
      r2 == set_times_nodes(r1.net, time_dict, 1)
  IN IF ~r1.ok THEN [net |-> r1.net, cache |-> es.cache, ok |-> FALSE]
     ELSE [net |-> r2.net, cache |-> es.cache, ok |-> r2.ok]

\* time(v) = time(u) + length(u, v) along a depth first list of edges
RECURSIVE derive_times(_, _, _)
derive_times(g, es, i) ==
  IF i > Len(es) THEN [net |-> g, ok |-> TRUE]
  ELSE IF es[i][1] \notin DOMAIN g.time \/ es[i] \notin DOMAIN g.length
    THEN [net |-> g, ok |-> FALSE]
  ELSE derive_times(
         set_node_time(g, es[i][2],
                       get_time(g, es[i][1]) + g.length[es[i]]),
         es, i + 1)

\* set_branch_length moving the child only, not the nodes below it
set_branch_length_child_only(g, parent_, child, length) ==
  IF ~has_node(g, parent_) THEN [net |-> g, ok |-> FALSE]
  ELSE IF child \notin SeqToSet(children(g, parent_)) THEN [net |-> g, ok |-> FALSE]
  ELSE IF length < 0 THEN [net |-> g, ok |-> FALSE]
  ELSE LET g1 == set_length(g, parent_, child, length)
       IN derive_times(g1, <<<<parent_, child>>>>, 1)

set_branch_length(g, parent_, child, length) ==
  IF ~has_node(g, parent_) THEN [net |-> g, ok |-> FALSE]
  ELSE IF child \notin SeqToSet(children(g, parent_)) THEN [net |-> g, ok |-> FALSE]
  ELSE IF length < 0 THEN [net |-> g, ok |-> FALSE]
  ELSE LET g1 == set_length(g, parent_, child, length)
       IN derive_times(g1, dfs_edges(g1, parent_), 1)

\* the item loop of set_branch_lengths: each entry is checked and then written
RECURSIVE set_branch_lengths_items(_, _, _)
set_branch_lengths_items(g, d, i) ==
  IF i > Len(d) THEN [net |-> g, ok |-> TRUE]
  ELSE IF ~has_node(g, d[i][1][1]) THEN [net |-> g, ok |-> FALSE]
  ELSE IF d[i][1][2] \notin SeqToSet(children(g, d[i][1][1]))
    THEN [net |-> g, ok |-> FALSE]
  ELSE IF d[i][2] < 0 THEN [net |-> g, ok |-> FALSE]
  ELSE set_branch_lengths_items(set_length(g, d[i][1][1], d[i][1][2], d[i][2]),
                                d, i + 1)

set_branch_lengths(g, c, branch_length_dict) ==
  LET r1 == set_branch_lengths_items(g, branch_length_dict, 1)
      r  == root(r1.net, c)
  IN IF ~r1.ok THEN [net |-> r1.net, cache |-> c, ok |-> FALSE]
     ELSE IF ~r.ok \/ ~has_node(r1.net, r.val)
       THEN [net |-> r1.net, cache |-> r.cache, ok |-> FALSE]
     ELSE [net |-> derive_times(r1.net, dfs_edges(r1.net, r.val), 1).net,
           cache |-> r.cache,
           ok |-> derive_times(r1.net, dfs_edges(r1.net, r.val), 1).ok]

\* ----------------------------------------------------- character states
\* One entry of a state vector: an integer state or a tuple of candidates.
missing_state_indicator == -1
Scalar(x) == [k |-> "int", v |-> <<x>>]
Ambiguous(t) == [k |-> "tuple", v |-> t]
Missing == Scalar(missing_state_indicator)

\* utilities.get_lca_characters: per position, the value the vectors agree
\* on if it is not missing, else the missing state
get_lca_characters(vecs, missing) ==
  [i \in 1..Len(vecs[1]) |->
     IF (\A j \in 1..Len(vecs) : vecs[j][i] = vecs[1][i]) /\ vecs[1][i] # missing
       THEN vecs[1][i] ELSE missing]

\* reconstruction that copies the first child's states to the parent
RECURSIVE reconstruct_loop_first_child(_, _, _)
reconstruct_loop_first_child(g, order, i) ==
  IF i > Len(order) THEN [net |-> g, ok |-> TRUE]
  ELSE IF is_leaf(g, order[i])
    THEN IF order[i] \notin DOMAIN g.states THEN [net |-> g, ok |-> FALSE]
         ELSE IF Len(g.states[order[i]]) = 0 THEN [net |-> g, ok |-> FALSE]
         ELSE reconstruct_loop_first_child(g, order, i + 1)
  ELSE reconstruct_loop_first_child(
         set_node_states(g, order[i], g.states[children(g, order[i])[1]]),
         order, i + 1)

RECURSIVE reconstruct_loop(_, _, _)
reconstruct_loop(g, order, i) ==
  IF i > Len(order) THEN [net |-> g, ok |-> TRUE]
  ELSE IF is_leaf(g, order[i])
    THEN IF order[i] \notin DOMAIN g.states THEN [net |-> g, ok |-> FALSE]
         ELSE IF Len(g.states[order[i]]) = 0 THEN [net |-> g, ok |-> FALSE]
         ELSE reconstruct_loop(g, order, i + 1)
  ELSE
    LET kids == children(g, order[i])
        character_states == [j \in 1..Len(kids) |-> g.states[kids[j]]]
    IN IF \E j \in 1..Len(kids) : Len(character_states[j]) # Len(character_states[1])
         THEN [net |-> g, ok |-> FALSE]
         ELSE reconstruct_loop(
                set_node_states(g, order[i],
                                get_lca_characters(character_states, Missing)),
                order, i + 1)

reconstruct_ancestral_characters(g, c) ==
  LET r == root(g, c)
  IN IF ~r.ok \/ ~has_node(g, r.val) THEN [net |-> g, cache |-> r.cache, ok |-> FALSE]
     ELSE [net |-> reconstruct_loop(g, dfs_postorder_nodes(g, r.val), 1).net,
           cache |-> r.cache,
           ok |-> reconstruct_loop(g, dfs_postorder_nodes(g, r.val), 1).ok]

get_character_states(g, node) ==
  IF node \in DOMAIN g.states THEN [val |-> g.states[node], ok |-> TRUE]
  ELSE [val |-> <<>>, ok |-> FALSE]

\* ------------------------------------------------------- leaf indexed data
\* current/original character matrix: None or [rows, ncols]
\* cell_meta: None or the map leaf -> value
\* dissimilarity_map: None or [index, val], val over index \X index
Infinity == 1000
NoMeta == "None"

\* the property n_character: the column count of the current matrix or,
\* without one, the length of the first leaf's state vector
n_character(g, c, ccm) ==
  IF ~IsNone(ccm) THEN [val |-> Val(ccm).ncols, cache |-> c, ok |-> TRUE]
  ELSE LET ls == leaves(g, c)
       IN IF Len(ls.val) = 0 THEN [val |-> 0, cache |-> ls.cache, ok |-> FALSE]
          ELSE IF ls.val[1] \notin DOMAIN g.states
            THEN [val |-> 0, cache |-> ls.cache, ok |-> FALSE]
          ELSE [val |-> Len(g.states[ls.val[1]]), cache |-> ls.cache, ok |-> TRUE]

register_data_with_tree(g, c, ccm, meta, dis) ==
  LET ls == leaves(g, c)
      leaves_set == SeqToSet(ls.val)
      add_cm == IF IsNone(ccm) THEN {} ELSE leaves_set \ DOMAIN Val(ccm).rows
      state == IF IsNone(ccm) THEN <<>>
               ELSE [i \in 1..n_character(g, c, ccm).val |-> Missing]
  IN [net |-> [g EXCEPT !.states =
                 [n \in (DOMAIN g.states) \cup (add_cm \cap NodeSet(g)) |->
                    IF n \in add_cm THEN state ELSE g.states[n]]],
      cache |-> ls.cache,
      ccm |-> IF IsNone(ccm) THEN None
              ELSE Some([Val(ccm) EXCEPT !.rows =
                     [n \in leaves_set |->
                        IF n \in DOMAIN Val(ccm).rows THEN Val(ccm).rows[n]
                        ELSE state]]),
      meta |-> IF IsNone(meta) THEN None
               ELSE Some([n \in leaves_set |->
                            IF n \in DOMAIN Val(meta) THEN Val(meta)[n] ELSE NoMeta]),
      dis |-> IF IsNone(dis) THEN None
              ELSE Some([index |-> leaves_set,
                         val |-> [p \in leaves_set \X leaves_set |->
                                    IF p[1] \in Val(dis).index /\ p[2] \in Val(dis).index
                                      THEN Val(dis).val[p] ELSE Infinity]])]

\* ------------------------------------------------- character state edits
\* any(isinstance(state, tuple) for state in states)
has_tuple(states) == \E i \in 1..Len(states) : states[i].k = "tuple"

\* set_character_states that leaves the current character matrix alone
set_character_states_node_only(g, c, ccm, node, states) ==
  LET nc == n_character(g, c, ccm)
      raised(h) == [net |-> h, cache |-> nc.cache, ccm |-> ccm, ok |-> FALSE]
  IN IF ~nc.ok THEN raised(g)
     ELSE IF Len(states) # nc.val THEN raised(g)
     ELSE IF ~has_node(g, node) THEN raised(g)
     ELSE IF is_leaf(g, node) /\ node \notin DOMAIN g.states THEN raised(g)
     ELSE IF is_leaf(g, node) /\ g.states[node] = <<>> THEN raised(g)
     ELSE [net |-> set_node_states(g, node, states), cache |-> nc.cache,
           ccm |-> ccm, ok |-> TRUE]

\* set_character_states without the length check
set_character_states_any_length(g, c, ccm, node, states) ==
  LET nc == n_character(g, c, ccm)
      raised(h) == [net |-> h, cache |-> nc.cache, ccm |-> ccm, ok |-> FALSE]
      g1 == set_node_states(g, node, states)
  IN IF ~nc.ok THEN raised(g)
     ELSE IF ~has_node(g, node) THEN raised(g)
     ELSE IF ~is_leaf(g, node)
       THEN [net |-> g1, cache |-> nc.cache, ccm |-> ccm, ok |-> TRUE]
     ELSE IF node \notin DOMAIN g.states THEN raised(g)
     ELSE IF g.states[node] = <<>> THEN raised(g)
     ELSE IF IsNone(ccm) THEN raised(g1)
     ELSE [net |-> g1, cache |-> nc.cache,
           ccm |-> Some([Val(ccm) EXCEPT !.rows = Put(Val(ccm).rows, node, states)]),
           ok |-> TRUE]

set_character_states(g, c, ccm, node, states) ==
  LET nc == n_character(g, c, ccm)
      raised(h) == [net |-> h, cache |-> nc.cache, ccm |-> ccm, ok |-> FALSE]
      g1 == set_node_states(g, node, states)
  IN IF ~nc.ok THEN raised(g)
     ELSE IF Len(states) # nc.val THEN raised(g)
     ELSE IF ~has_node(g, node) THEN raised(g)
     ELSE IF ~is_leaf(g, node)
       THEN [net |-> g1, cache |-> nc.cache, ccm |-> ccm, ok |-> TRUE]
     ELSE IF node \notin DOMAIN g.states THEN raised(g)
     ELSE IF g.states[node] = <<>> THEN raised(g)
     \* without a matrix the row assignment raises after the node is written
     ELSE IF IsNone(ccm) THEN raised(g1)
     ELSE [net |-> g1, cache |-> nc.cache,
           ccm |-> Some([Val(ccm) EXCEPT !.rows = Put(Val(ccm).rows, node, states)]),
           ok |-> TRUE]

\* tuple(set(t)) for a tuple of Python ints, as CPython builds and walks
\* the set's hash table.  The table `so` is [table, mask, fill]: table[s + 1]
\* is slot s, None when unused.  hash(v) is v, except hash(-1) = -2.
py_hash(v) == IF v = -1 THEN -2 ELSE v

\* the low bits of the unsigned `perturb` after k shifts by PERTURB_SHIFT,
\* q being the hash h floor-divided by 32, k times
perturb_bits(h, k, q) ==
  IF h >= 0 \/ k <= 11 THEN q ELSE IF k = 12 THEN 16 + q ELSE 0

\* the probe sequence of set_add_entry: the unused slot where key goes, or
\* -1 when key is already in the table
RECURSIVE set_probe(_, _, _, _, _, _, _)
set_probe(table, mask, key, i, j, k, q) ==
  IF table[i + j + 1] = None THEN i + j
  ELSE IF table[i + j + 1] = Some(key) THEN -1
  ELSE IF j < (IF i + 9 <= mask THEN 9 ELSE 0)
    THEN set_probe(table, mask, key, i, j + 1, k, q)
  ELSE set_probe(table, mask, key,
                 (i * 5 + 1 + perturb_bits(py_hash(key), k + 1, q \div 32))
                   % (mask + 1),
                 0, k + 1, q \div 32)

set_slot(table, mask, key) ==
  set_probe(table, mask, key, py_hash(key) % (mask + 1), 0, 0, py_hash(key))

set_insert(table, mask, key) ==
  [table EXCEPT ![set_slot(table, mask, key) + 1] = Some(key)]

RECURSIVE set_table_size(_, _)
set_table_size(newsize, minused) ==
  IF newsize > minused THEN newsize ELSE set_table_size(2 * newsize, minused)

\* set_table_resize: the keys re-inserted in slot order into a new table
RECURSIVE set_insert_clean(_, _, _, _)
set_insert_clean(old, s, table, mask) ==
  IF s > Len(old) THEN table
  ELSE set_insert_clean(old, s + 1,
                        IF old[s] = None THEN table
                        ELSE set_insert(table, mask, Val(old[s])),
                        mask)

set_table_resize(so) ==
  LET newsize == set_table_size(8, so.fill * 4)
  IN [table |-> set_insert_clean(so.table, 1,
                                 [s \in 1..newsize |-> None], newsize - 1),
      mask |-> newsize - 1, fill |-> so.fill]

set_add_key(so, key) ==
  LET added == [table |-> set_insert(so.table, so.mask, key),
                mask |-> so.mask, fill |-> so.fill + 1]
  IN IF set_slot(so.table, so.mask, key) < 0 THEN so
     ELSE IF added.fill * 5 < so.mask * 3 THEN added
     ELSE set_table_resize(added)

RECURSIVE set_update(_, _, _)
set_update(so, t, i) ==
  IF i > Len(t) THEN so ELSE set_update(set_add_key(so, t[i]), t, i + 1)

\* iteration over the set: the keys in slot order
RECURSIVE set_keys(_, _)
set_keys(table, s) ==
  IF s > Len(table) THEN <<>>
  ELSE (IF table[s] = None THEN <<>> ELSE <<Val(table[s])>>)
       \o set_keys(table, s + 1)

tuple_of_set(t) ==
  set_keys(set_update([table |-> [s \in 1..8 |-> None], mask |-> 7,
                       fill |-> 0], t, 1).table, 1)

\* a collapse that drops the first candidate of every ambiguous entry
collapse_states_drop_first(states) ==
  [i \in 1..Len(states) |->
     IF states[i].k = "tuple" /\ Len(states[i].v) > 1
       THEN Ambiguous(Tail(states[i].v))
     ELSE states[i]]

\* the inner loop of collapse_ambiguous_characters over one state vector
collapse_states(states) ==
  [i \in 1..Len(states) |->
     IF states[i].k = "tuple" THEN Ambiguous(tuple_of_set(states[i].v))
     ELSE states[i]]

RECURSIVE collapse_ambiguous_loop(_, _, _, _, _)
collapse_ambiguous_loop(g, c, ccm, order, i) ==
  IF i > Len(order) THEN [net |-> g, cache |-> c, ccm |-> ccm, ok |-> TRUE]
  ELSE IF order[i] \notin DOMAIN g.states
    THEN [net |-> g, cache |-> c, ccm |-> ccm, ok |-> FALSE]
  ELSE IF ~has_tuple(g.states[order[i]])
    THEN collapse_ambiguous_loop(g, c, ccm, order, i + 1)
  ELSE LET r == set_character_states(g, c, ccm, order[i],
                                     collapse_states(g.states[order[i]]))
       IN IF ~r.ok THEN r
          ELSE collapse_ambiguous_loop(r.net, r.cache, r.ccm, order, i + 1)

collapse_ambiguous_characters(g, c, ccm) ==
  LET ns == nodes(g, c)
  IN collapse_ambiguous_loop(g, ns.cache, ccm, ns.val, 1)

\* the candidates collections.Counter(t).most_common() ranks first, in the
\* order of their first occurrence in t
most_common_ties(t) ==
  LET count(x) == Cardinality({i \in 1..Len(t) : t[i] = x})
      top == CHOOSE n \in {count(t[i]) : i \in 1..Len(t)} :
               \A i \in 1..Len(t) : count(t[i]) <= n
      firsts == SelectSeq([i \in 1..Len(t) |-> i],
                          LAMBDA i : /\ count(t[i]) = top
                                     /\ \A j \in 1..(i - 1) : t[j] # t[i])
  IN [i \in 1..Len(firsts) |-> t[firsts[i]]]

\* a resolver that takes the second candidate of every ambiguous entry
RECURSIVE resolve_states_pick_second(_, _, _, _)
resolve_states_pick_second(states, i, draws, k) ==
  IF i > Len(states) THEN [states |-> states, k |-> k]
  ELSE IF states[i].k = "tuple"
    THEN resolve_states_pick_second(
           [states EXCEPT ![i] = Scalar(states[i].v[IF Len(states[i].v) > 1
                                                      THEN 2 ELSE 1])],
           i + 1, draws, k + 1)
    ELSE resolve_states_pick_second(states, i + 1, draws, k)

\* the inner loop of resolve_ambiguous_characters with the default resolver;
\* draws[j] is the number the j-th np.random.choice call draws, k counts the
\* calls made
RECURSIVE resolve_states(_, _, _, _)
resolve_states(states, i, draws, k) ==
  IF i > Len(states) THEN [states |-> states, k |-> k]
  ELSE IF states[i].k = "tuple"
    THEN LET ties == most_common_ties(states[i].v)
             new_state == ties[(draws[k + 1] % Len(ties)) + 1]
         IN resolve_states([states EXCEPT ![i] = Scalar(new_state)],
                           i + 1, draws, k + 1)
    ELSE resolve_states(states, i + 1, draws, k)

RECURSIVE resolve_ambiguous_loop(_, _, _, _, _, _, _)
resolve_ambiguous_loop(g, c, ccm, order, i, draws, k) ==
  IF i > Len(order) THEN [net |-> g, cache |-> c, ccm |-> ccm, ok |-> TRUE]
  ELSE IF order[i] \notin DOMAIN g.states
    THEN [net |-> g, cache |-> c, ccm |-> ccm, ok |-> FALSE]
  ELSE IF ~has_tuple(g.states[order[i]])
    THEN resolve_ambiguous_loop(g, c, ccm, order, i + 1, draws, k)
  ELSE LET res == resolve_states(g.states[order[i]], 1, draws, k)
           r == set_character_states(g, c, ccm, order[i], res.states)
       IN IF ~r.ok THEN r
          ELSE resolve_ambiguous_loop(r.net, r.cache, r.ccm, order, i + 1,
                                      draws, res.k)

\* the closing astype(int) raises without a matrix and on a matrix that
\* still holds a tuple
astype_int(r) ==
  IF ~r.ok THEN r
  ELSE IF IsNone(r.ccm) THEN [r EXCEPT !.ok = FALSE]
  ELSE IF \E n \in DOMAIN Val(r.ccm).rows : has_tuple(Val(r.ccm).rows[n])
    THEN [r EXCEPT !.ok = FALSE]
  ELSE r

resolve_ambiguous_characters(g, c, ccm, draws) ==
  IF g = None
    THEN [net |-> g, cache |-> c, ccm |-> ccm, ok |-> FALSE]
  ELSE LET ns == nodes(g, c)
       IN astype_int(resolve_ambiguous_loop(g, ns.cache, ccm, ns.val, 1,
                                            draws, 0))

\* is_ambiguous(node)
is_ambiguous(g, node) ==
  IF node \in DOMAIN g.states
    THEN [val |-> has_tuple(g.states[node]), ok |-> TRUE]
    ELSE [val |-> FALSE, ok |-> FALSE]

\* -------------------------------------------------------- topology surgery
\* add_leaf without the check that the parent is not a leaf
add_leaf_below_leaf(g, c, ccm, meta, dis, parent_, node) ==
  LET ns == nodes(g, c)
      ls == leaves(g, ns.cache)
      unchanged(cc) == [net |-> g, cache |-> cc, ccm |-> ccm, meta |-> meta,
                        dis |-> dis, ok |-> FALSE]
      g1 == add_edge(g, parent_, node)
      g2 == set_branch_length(g1, parent_, node, 0)
      reg == register_data_with_tree(g2.net, EmptyCache, ccm, meta, dis)
  IN IF node \in SeqToSet(ns.val) THEN unchanged(ns.cache)
     ELSE IF parent_ \notin SeqToSet(ns.val) THEN unchanged(ns.cache)
     ELSE [net |-> reg.net, cache |-> reg.cache, ccm |-> reg.ccm,
           meta |-> reg.meta, dis |-> reg.dis, ok |-> TRUE]

add_leaf(g, c, ccm, meta, dis, parent_, node) ==
  LET ns == nodes(g, c)
      ls == leaves(g, ns.cache)
      unchanged(cc) == [net |-> g, cache |-> cc, ccm |-> ccm, meta |-> meta,
                        dis |-> dis, ok |-> FALSE]
      g1 == add_edge(g, parent_, node)
      g2 == set_branch_length(g1, parent_, node, 0)
      reg == register_data_with_tree(g2.net, EmptyCache, ccm, meta, dis)
  IN IF node \in SeqToSet(ns.val) THEN unchanged(ns.cache)
     ELSE IF parent_ \notin SeqToSet(ns.val) THEN unchanged(ns.cache)
     ELSE IF parent_ \in SeqToSet(ls.val) THEN unchanged(ls.cache)
     ELSE IF ~g2.ok
       THEN [net |-> g2.net, cache |-> ls.cache, ccm |-> ccm, meta |-> meta,
             dis |-> dis, ok |-> FALSE]
     ELSE [net |-> reg.net, cache |-> reg.cache, ccm |-> reg.ccm,
           meta |-> reg.meta, dis |-> reg.dis, ok |-> TRUE]

\* the upward walk of remove_leaf_and_prune_lineage
\* an upward walk that removes no ancestor
prune_lineage_none(g, curr_parent) == g

RECURSIVE prune_lineage(_, _)
prune_lineage(g, curr_parent) ==
  IF Len(children(g, curr_parent)) < 1 /\ ~is_root(g, curr_parent)
    THEN prune_lineage(remove_node(g, curr_parent), parent(g, curr_parent))
    ELSE g

remove_leaf_and_prune_lineage(g, c, ccm, meta, dis, node) ==
  LET ns == nodes(g, c)
      g1 == IF Len(ns.val) = 1 \/ is_root(g, node) THEN remove_node(g, node)
            ELSE prune_lineage(remove_node(g, node), parent(g, node))
      reg == register_data_with_tree(g1, EmptyCache, ccm, meta, dis)
  IN IF ~is_leaf(g, node)
       THEN [net |-> g, cache |-> c, ccm |-> ccm, meta |-> meta, dis |-> dis,
             ok |-> FALSE]
     ELSE IF Len(ns.val) # 1 /\ is_root(g, node)
       \* parent() of a node without predecessor raises
       THEN [net |-> g, cache |-> ns.cache, ccm |-> ccm, meta |-> meta,
             dis |-> dis, ok |-> FALSE]
       ELSE [net |-> reg.net, cache |-> reg.cache, ccm |-> reg.ccm,
             meta |-> reg.meta, dis |-> reg.dis, ok |-> TRUE]

\* connect n to every child of child with the summed length, then drop child
RECURSIVE bypass(_, _, _, _, _)
bypass(g, n, child, grandchildren, i) ==
  IF i > Len(grandchildren) THEN remove_node(g, child)
  ELSE bypass(set_length(add_edge(g, n, grandchildren[i]), n, grandchildren[i],
                         g.length[<<n, child>>] + g.length[<<child, grandchildren[i]>>]),
              n, child, grandchildren, i + 1)

\* a visit that gives the new edge the lower length only
collapse_unifurcations_visit_unsummed(g, source, node) ==
  IF is_leaf(g, node) \/ ~has_node(g, node) THEN g
  ELSE IF node = source
    THEN IF Len(children(g, node)) = 1
           THEN bypass(g, node, children(g, node)[1],
                       children(g, children(g, node)[1]), 1)
           ELSE g
  ELSE IF Len(children(g, node)) = 1
    THEN remove_node(
           set_length(add_edge(g, parent(g, node), children(g, node)[1]),
                      parent(g, node), children(g, node)[1],
                      g.length[<<node, children(g, node)[1]>>]),
           node)
  ELSE g

\* a visit that removes a source with a single child, not the child
collapse_unifurcations_visit_drop_source(g, source, node) ==
  IF is_leaf(g, node) \/ ~has_node(g, node) THEN g
  ELSE IF Len(children(g, node)) = 1 /\ node = source THEN remove_node(g, node)
  ELSE IF Len(children(g, node)) = 1
    THEN remove_node(
           set_length(add_edge(g, parent(g, node), children(g, node)[1]),
                      parent(g, node), children(g, node)[1],
                      g.length[<<parent(g, node), node>>]
                        + g.length[<<node, children(g, node)[1]>>]),
           node)
  ELSE g

\* one visit of the post-order walk of collapse_unifurcations
collapse_unifurcations_visit(g, source, node) ==
  IF is_leaf(g, node) \/ ~has_node(g, node) THEN g
  ELSE IF node = source
    THEN IF Len(children(g, node)) = 1
           THEN bypass(g, node, children(g, node)[1],
                       children(g, children(g, node)[1]), 1)
           ELSE g
  ELSE IF Len(children(g, node)) = 1
    THEN remove_node(
           set_length(add_edge(g, parent(g, node), children(g, node)[1]),
                      parent(g, node), children(g, node)[1],
                      g.length[<<parent(g, node), node>>]
                        + g.length[<<node, children(g, node)[1]>>]),
           node)
  ELSE g

RECURSIVE collapse_unifurcations_loop(_, _, _, _)
collapse_unifurcations_loop(g, source, order, i) ==
  IF i > Len(order) THEN g
  ELSE collapse_unifurcations_loop(
         collapse_unifurcations_visit(g, source, order[i]), source, order, i + 1)

\* source: None for the default argument, else Some(node)
collapse_unifurcations(g, c, source) ==
  LET r == root(g, c)
      src == IF IsNone(source) THEN r.val ELSE Val(source)
      c1 == IF IsNone(source) THEN r.cache ELSE c
  IN IF (IsNone(source) /\ ~r.ok) \/ ~has_node(g, src)
       THEN [net |-> g, cache |-> c1, ok |-> FALSE]
       ELSE [net |-> collapse_unifurcations_loop(
                       g, src, dfs_postorder_nodes(g, src), 1),
             cache |-> EmptyCache, ok |-> TRUE]

\* the loop over the children of n in collapse_mutationless_edges
\* a loop that collapses every child that is not a leaf, whatever its states
RECURSIVE collapse_mutationless_children_all(_, _, _, _)
collapse_mutationless_children_all(g, n, kids, i) ==
  IF i > Len(kids) THEN [net |-> g, ok |-> TRUE]
  ELSE IF is_leaf(g, kids[i])
    THEN collapse_mutationless_children_all(g, n, kids, i + 1)
  ELSE collapse_mutationless_children_all(
         bypass(g, n, kids[i], children(g, kids[i]), 1), n, kids, i + 1)

RECURSIVE collapse_mutationless_children(_, _, _, _)
collapse_mutationless_children(g, n, kids, i) ==
  IF i > Len(kids) THEN [net |-> g, ok |-> TRUE]
  ELSE IF is_leaf(g, kids[i]) THEN collapse_mutationless_children(g, n, kids, i + 1)
  ELSE IF n \notin DOMAIN g.states \/ kids[i] \notin DOMAIN g.states
    THEN [net |-> g, ok |-> FALSE]
  ELSE IF g.states[n] = g.states[kids[i]]
    THEN collapse_mutationless_children(
           bypass(g, n, kids[i], children(g, kids[i]), 1), n, kids, i + 1)
  ELSE collapse_mutationless_children(g, n, kids, i + 1)

RECURSIVE collapse_mutationless_loop(_, _, _)
collapse_mutationless_loop(g, order, i) ==
  IF i > Len(order) THEN [net |-> g, ok |-> TRUE]
  ELSE IF is_leaf(g, order[i]) \/ ~has_node(g, order[i])
    THEN collapse_mutationless_loop(g, order, i + 1)
  ELSE LET v == collapse_mutationless_children(
                  g, order[i], children(g, order[i]), 1)
       IN IF ~v.ok THEN v ELSE collapse_mutationless_loop(v.net, order, i + 1)

collapse_mutationless_edges(g, c, infer_ancestral_characters) ==
  LET rec == IF infer_ancestral_characters
               THEN reconstruct_ancestral_characters(g, c)
               ELSE [net |-> g, cache |-> c, ok |-> TRUE]
      r == root(rec.net, rec.cache)
      res == collapse_mutationless_loop(
               rec.net, dfs_postorder_nodes(rec.net, r.val), 1)
  IN IF ~rec.ok THEN rec
     ELSE IF ~r.ok \/ ~has_node(rec.net, r.val)
       THEN [net |-> rec.net, cache |-> r.cache, ok |-> FALSE]
     ELSE IF ~res.ok THEN [net |-> res.net, cache |-> r.cache, ok |-> FALSE]
     ELSE [net |-> res.net, cache |-> EmptyCache, ok |-> TRUE]

\* new name of n under relabel_map, the items (old, new) of a one-to-one
\* map whose new names do not collide with the names it keeps
NewName(relabel_map, n) ==
  IF n \in DictKeys(relabel_map) THEN DictVal(relabel_map, n) ELSE n

OldName(g, relabel_map, m) ==
  CHOOSE n \in NodeSet(g) : NewName(relabel_map, n) = m

\* relabel_nodes that leaves the cache as it is
relabel_nodes_keeping_cache(g, c, relabel_map) ==
  [net |->
        [nodes  |-> [i \in 1..Len(g.nodes) |-> NewName(relabel_map, g.nodes[i])],
         succ   |-> [m \in {NewName(relabel_map, n) : n \in NodeSet(g)} |->
                       [j \in 1..Len(g.succ[OldName(g, relabel_map, m)]) |->
                          NewName(relabel_map, g.succ[OldName(g, relabel_map, m)][j])]],
         time   |-> [m \in {NewName(relabel_map, n) : n \in DOMAIN g.time} |->
                       g.time[OldName(g, relabel_map, m)]],
         length |-> [e \in {<<NewName(relabel_map, x[1]), NewName(relabel_map, x[2])>> :
                              x \in DOMAIN g.length} |->
                       g.length[<<OldName(g, relabel_map, e[1]),
                                  OldName(g, relabel_map, e[2])>>]],
         states |-> [m \in {NewName(relabel_map, n) : n \in DOMAIN g.states} |->
                       g.states[OldName(g, relabel_map, m)]]],
      cache |-> c, ok |-> TRUE]

\* networkx relabel_nodes, then the cache reset
relabel_nodes(g, c, relabel_map) ==
  LET new == {NewName(relabel_map, n) : n \in NodeSet(g)}
  IN [net |->
        [nodes  |-> [i \in 1..Len(g.nodes) |-> NewName(relabel_map, g.nodes[i])],
         succ   |-> [m \in new |->
                       [j \in 1..Len(g.succ[OldName(g, relabel_map, m)]) |->
                          NewName(relabel_map, g.succ[OldName(g, relabel_map, m)][j])]],
         time   |-> [m \in {NewName(relabel_map, n) : n \in DOMAIN g.time} |->
                       g.time[OldName(g, relabel_map, m)]],
         length |-> [e \in {<<NewName(relabel_map, x[1]), NewName(relabel_map, x[2])>> :
                              x \in DOMAIN g.length} |->
                       g.length[<<OldName(g, relabel_map, e[1]),
                                  OldName(g, relabel_map, e[2])>>]],
         states |-> [m \in {NewName(relabel_map, n) : n \in DOMAIN g.states} |->
                       g.states[OldName(g, relabel_map, m)]]],
      cache |-> EmptyCache, ok |-> TRUE]

\* populate_tree: tree is a DiGraph [nodes, succ]; ocm is the original
\* character matrix
populate_tree(tree, ocm) ==
  LET g0 == [nodes |-> tree.nodes, succ |-> tree.succ, time |-> <<>>,
             length |-> <<>>,
             states |-> [n \in SeqToSet(tree.nodes) |->
                           IF ~IsNone(ocm) /\ n \in DOMAIN Val(ocm).rows
                             THEN Val(ocm).rows[n] ELSE <<>>]]
      ns == nodes(g0, EmptyCache)
      es == edges(g0, ns.cache)
      g1 == [g0 EXCEPT !.length = [e \in SeqToSet(es.val) |-> 1]]
      r  == root(g1, es.cache)
      g2 == set_node_time(g1, r.val, 0)
  IN IF ~r.ok THEN [net |-> g1, cache |-> r.cache, ok |-> FALSE]
     ELSE [net |-> derive_times(g2, dfs_edges(g2, r.val), 1).net,
           cache |-> r.cache, ok |-> TRUE]

\* ------------------------------------------------------------ the inputs
\* the elements of a set of names, as a list in the order of NodeNames
Sorted(S) == SelectSeq(NodeNames, LAMBDA n : n \in S)

\* time_dict arguments: a time for every node; the same time for every node
\* but one; the same time for every node and for one name that is not in the
\* tree
ItemsOf(f) == [i \in 1..Len(Sorted(DOMAIN f)) |->
                 <<Sorted(DOMAIN f)[i], f[Sorted(DOMAIN f)[i]]>>]

TimeDicts(g) ==
  {ItemsOf(f) : f \in [NodeSet(g) -> Times]}
  \cup {ItemsOf([n \in NodeSet(g) \ {x[1]} |-> x[2]]) : x \in NodeSet(g) \X Times}
  \cup {ItemsOf([n \in NodeSet(g) \cup {x[1]} |-> x[2]]) :
          x \in (Names \ NodeSet(g)) \X Times}

\* (parent, child) arguments: every edge of the tree, and pairs that are not
\* an edge (two nodes of the tree; a name that is not in the tree)
BranchKeys(g) ==
  EdgeSet(g)
  \cup {<<g.nodes[i], g.nodes[i]>> : i \in {1} \cap DOMAIN g.nodes}
  \cup {<<x, x>> : x \in Names \ NodeSet(g)}
Lengths == (-1)..MaxTime

\* branch_length_dict arguments: one entry, or a valid entry followed by a
\* second entry
BranchLengthDicts(g) ==
  {<<<<k, l>>>> : k \in BranchKeys(g), l \in Lengths}
  \cup {<<<<k[1], l[1]>>, <<k[2], l[2]>>>> :
          k \in {q \in EdgeSet(g) \X BranchKeys(g) : q[1] # q[2]},
          l \in Times \X Lengths}

\* relabel_map arguments: one old name mapped to a name not in use
RelabelMaps(g) ==
  {<<<<old, new>>>> : old \in NodeSet(g), new \in Names \ NodeSet(g)}

\* the trees handed to populate_tree and to the constructor
Tree(ns, kids) ==
  [nodes |-> ns,
   succ |-> [n \in SeqToSet(ns) |-> IF n \in DOMAIN kids THEN kids[n] ELSE <<>>]]

InitTrees ==
  { Tree(<<"r", "a", "b">>, [n \in {"r"} |-> <<"a", "b">>]),
    Tree(<<"r", "a", "b">>, [n \in {"r", "a"} |-> IF n = "r" THEN <<"a">> ELSE <<"b">>]),
    Tree(<<"r", "a", "b", "c">>,
         [n \in {"r", "a"} |-> IF n = "r" THEN <<"a", "b">> ELSE <<"c">>]),
    Tree(<<"r", "a", "b", "c">>,
         [n \in {"r", "a"} |-> IF n = "r" THEN <<"a">> ELSE <<"b", "c">>]) }

\* the character matrices handed to the constructor: none, or one row of
\* NumChars states per leaf of the tree, the last state of leaf b missing
NumChars == 2

Matrix(rows) == [rows |-> rows, ncols |-> NumChars]

InitMatrices(tree) ==
  LET L == {n \in SeqToSet(tree.nodes) : Len(tree.succ[n]) = 0}
  IN {None,
      Some(Matrix([n \in L |->
                     [i \in 1..NumChars |-> IF n = "b" /\ i = NumChars
                                              THEN Missing ELSE Scalar(i)]]))}

\* ------------------------------------------------------------ the state
tables == <<current_character_matrix, original_character_matrix, cell_meta,
            dissimilarity_map>>

\* op: the last method called and whether it returned normally; allOk: no
\* call so far has raised; calls: the number of calls so far; held: the
\* container the last call handed to the caller, as <<query, argument>>;
\* frame: the local variables of a call that is run one loop pass at a time,
\* None while no such call is in progress
Returned(name, ok) ==
  /\ op' = [name |-> name, ok |-> ok]
  /\ allOk' = (allOk /\ ok)
  /\ calls' = calls + 1
  /\ held' = None
  /\ UNCHANGED frame

ReturnedContainer(name, arg, ok) ==
  /\ op' = [name |-> name, ok |-> ok]
  /\ allOk' = (allOk /\ ok)
  /\ calls' = calls + 1
  /\ held' = IF ok THEN Some(<<name, arg>>) ELSE None
  /\ UNCHANGED frame

\* the model keeps times and lengths within 0..MaxTime
Bounded(g) ==
  /\ \A n \in DOMAIN g.time : g.time[n] \in Times
  /\ \A e \in DOMAIN g.length : g.length[e] <= MaxTime

\* CassiopeiaTree(character_matrix, tree=tree, cell_meta, dissimilarity_map)
Constructed(tree, cm, with_tables) ==
  LET built == populate_tree(tree, cm)
      L == IF IsNone(cm) THEN {} ELSE DOMAIN Val(cm).rows
  IN /\ network = built.net
     /\ cache = built.cache
     /\ current_character_matrix = cm
     /\ original_character_matrix = cm
     /\ cell_meta = IF with_tables /\ ~IsNone(cm)
                      THEN Some([n \in L |-> "meta"]) ELSE None
     /\ dissimilarity_map =
          IF with_tables /\ ~IsNone(cm)
            THEN Some([index |-> L,
                       val |-> [p \in L \X L |-> IF p[1] = p[2] THEN 0 ELSE 1]])
            ELSE None
     /\ op = [name |-> "__init__", ok |-> TRUE]
     /\ allOk = TRUE
     /\ calls = 0
     /\ held = None
     /\ frame = None

\* a tree constructed without leaf data, or with a character matrix, cell
\* meta data and a dissimilarity map over its leaves
Init ==
  \E tree \in InitTrees : \E cm \in InitMatrices(tree) :
    Constructed(tree, cm, ~IsNone(cm))

\* ------------------------------------------------------------ the actions
SetTime(node, new_time) ==
  LET r == set_time(network, node, new_time)
  IN /\ calls < MaxCalls
     /\ network' = r.net
     /\ Returned("set_time", r.ok)
     /\ UNCHANGED <<cache, tables>>

SetTimes(time_dict) ==
  LET r == set_times(network, cache, time_dict)
  IN /\ calls < MaxCalls
     /\ network' = r.net
     /\ cache' = r.cache
     /\ Returned("set_times", r.ok)
     /\ UNCHANGED tables

SetBranchLength(parent_, child, length) ==
  LET r == set_branch_length(network, parent_, child, length)
  IN /\ calls < MaxCalls
     /\ Bounded(r.net)
     /\ network' = r.net
     /\ Returned("set_branch_length", r.ok)
     /\ UNCHANGED <<cache, tables>>

SetBranchLengths(branch_length_dict) ==
  LET r == set_branch_lengths(network, cache, branch_length_dict)
  IN /\ calls < MaxCalls
     /\ Bounded(r.net)
     /\ network' = r.net
     /\ cache' = r.cache
     /\ Returned("set_branch_lengths", r.ok)
     /\ UNCHANGED tables

AddLeaf(parent_, node) ==
  LET r == add_leaf(network, cache, current_character_matrix, cell_meta,
                    dissimilarity_map, parent_, node)
  IN /\ calls < MaxCalls
     /\ Bounded(r.net)
     /\ network' = r.net
     /\ cache' = r.cache
     /\ current_character_matrix' = r.ccm
     /\ cell_meta' = r.meta
     /\ dissimilarity_map' = r.dis
     /\ Returned("add_leaf", r.ok)
     /\ UNCHANGED original_character_matrix

RemoveLeafAndPruneLineageCall(node) ==
  LET r == remove_leaf_and_prune_lineage(network, cache, current_character_matrix,
                                         cell_meta, dissimilarity_map, node)
  IN /\ network' = r.net
     /\ cache' = r.cache
     /\ current_character_matrix' = r.ccm
     /\ cell_meta' = r.meta
     /\ dissimilarity_map' = r.dis
     /\ Returned("remove_leaf_and_prune_lineage", r.ok)
     /\ UNCHANGED original_character_matrix

RemoveLeafAndPruneLineage(node) ==
  /\ calls < MaxCalls
  /\ RemoveLeafAndPruneLineageCall(node)

CollapseUnifurcations(source) ==
  LET r == collapse_unifurcations(network, cache, source)
  IN /\ calls < MaxCalls
     /\ Bounded(r.net)
     /\ network' = r.net
     /\ cache' = r.cache
     /\ Returned("collapse_unifurcations", r.ok)
     /\ UNCHANGED tables

CollapseMutationlessEdges(infer_ancestral_characters) ==
  LET r == collapse_mutationless_edges(network, cache, infer_ancestral_characters)
  IN /\ calls < MaxCalls
     /\ Bounded(r.net)
     /\ network' = r.net
     /\ cache' = r.cache
     /\ Returned("collapse_mutationless_edges", r.ok)
     /\ UNCHANGED tables

RelabelNodes(relabel_map) ==
  LET r == relabel_nodes(network, cache, relabel_map)
  IN /\ calls < MaxCalls
     /\ network' = r.net
     /\ cache' = r.cache
     /\ Returned("relabel_nodes", r.ok)
     /\ UNCHANGED tables

PopulateTree(tree) ==
  LET r == populate_tree(tree, original_character_matrix)
  IN /\ calls < MaxCalls
     /\ network' = r.net
     /\ cache' = r.cache
     /\ Returned("populate_tree", r.ok)
     /\ UNCHANGED tables

\* the read queries; each may fill the cache
QueryRoot ==
  LET r == root(network, cache)
  IN /\ calls < MaxCalls
     /\ cache' = r.cache
     /\ Returned("root", r.ok)
     /\ UNCHANGED <<network, tables>>

QueryLeaves ==
  LET r == leaves(network, cache)
  IN /\ calls < MaxCalls
     /\ cache' = r.cache
     /\ ReturnedContainer("leaves", <<>>, r.ok)
     /\ UNCHANGED <<network, tables>>

QueryInternalNodes ==
  LET r == internal_nodes(network, cache)
  IN /\ calls < MaxCalls
     /\ cache' = r.cache
     /\ ReturnedContainer("internal_nodes", <<>>, r.ok)
     /\ UNCHANGED <<network, tables>>

QueryNodes ==
  LET r == nodes(network, cache)
  IN /\ calls < MaxCalls
     /\ cache' = r.cache
     /\ ReturnedContainer("nodes", <<>>, r.ok)
     /\ UNCHANGED <<network, tables>>

QueryEdges ==
  LET r == edges(network, cache)
  IN /\ calls < MaxCalls
     /\ cache' = r.cache
     /\ ReturnedContainer("edges", <<>>, r.ok)
     /\ UNCHANGED <<network, tables>>

GetCharacterStates(node) ==
  LET r == get_character_states(network, node)
  IN /\ calls < MaxCalls
     /\ ReturnedContainer("get_character_states", <<node>>, r.ok)
     /\ UNCHANGED <<network, cache, tables>>

GetAllAncestors(node) ==
  LET r == get_all_ancestors(network, cache, node)
  IN /\ calls < MaxCalls
     /\ cache' = r.cache
     /\ ReturnedContainer("get_all_ancestors", <<node>>, r.ok)
     /\ UNCHANGED <<network, tables>>

LeavesInSubtree(node) ==
  LET r == leaves_in_subtree(network, cache, node)
  IN /\ calls < MaxCalls
     /\ cache' = r.cache
     /\ ReturnedContainer("leaves_in_subtree", <<node>>, r.ok)
     /\ UNCHANGED <<network, tables>>

GetDistance(node1, node2) ==
  LET r == get_distance(network, cache, node1, node2)
  IN /\ calls < MaxCalls
     /\ cache' = r.cache
     /\ Returned("get_distance", r.ok)
     /\ UNCHANGED <<network, tables>>

GetDistances(node, leaves_only) ==
  LET r == get_distances(network, cache, node, leaves_only)
  IN /\ calls < MaxCalls
     /\ cache' = r.cache
     /\ ReturnedContainer("get_distances", <<node, leaves_only>>, r.ok)
     /\ UNCHANGED <<network, tables>>

\* what the query q = <<name, arguments>> returns on the tree (g, c)
QueryValue(g, c, q) ==
  CASE q[1] = "leaves" -> leaves(g, c).val
    [] q[1] = "internal_nodes" -> internal_nodes(g, c).val
    [] q[1] = "nodes" -> nodes(g, c).val
    [] q[1] = "edges" -> edges(g, c).val
    [] q[1] = "get_character_states" -> get_character_states(g, q[2][1]).val
    [] q[1] = "get_all_ancestors" -> get_all_ancestors(g, c, q[2][1]).val
    [] q[1] = "leaves_in_subtree" -> leaves_in_subtree(g, c, q[2][1]).val
    [] q[1] = "get_distances" -> get_distances(g, c, q[2][1], q[2][2]).val

\* the queries whose return statement hands out the cached object itself
\* instead of a copy of it
ReturnsCachedObject(q) ==
  \/ q[1] = "get_all_ancestors"
  \/ q[1] = "leaves_in_subtree"
  \/ q[1] = "get_distances" /\ ~q[2][2]

\* the caller changes the container it was handed: a list gets the element x
\* appended, a dict gets the key x bound to 0
CallerMutates(x) ==
  /\ calls < MaxCalls
  /\ ~IsNone(held)
  /\ LET q == Val(held)
         n == q[2][1]
     IN cache' =
          IF ~ReturnsCachedObject(q) THEN cache
          ELSE IF q[1] = "get_all_ancestors"
            THEN [cache EXCEPT !.ancestors[n] = Append(@, x)]
          ELSE IF q[1] = "leaves_in_subtree"
            THEN [cache EXCEPT !.subtree = Some([Val(@) EXCEPT ![n] = Append(@, x)])]
          ELSE [cache EXCEPT !.distances[n] = Put(@, x, 0)]
  /\ op' = [name |-> "caller_mutates", ok |-> TRUE]
  /\ calls' = calls + 1
  /\ UNCHANGED <<network, tables, allOk, held, frame>>

Setters ==
  \/ \E n \in Names, t \in Times : SetTime(n, t)
  \/ \E d \in TimeDicts(network) : SetTimes(d)
  \/ \E k \in BranchKeys(network), l \in Lengths : SetBranchLength(k[1], k[2], l)
  \/ \E d \in BranchLengthDicts(network) : SetBranchLengths(d)

Surgery ==
  \/ \E p \in Names, n \in Names : AddLeaf(p, n)
  \/ \E n \in Names : RemoveLeafAndPruneLineage(n)
  \/ \E s \in {None} \cup {Some(n) : n \in Names} : CollapseUnifurcations(s)
  \/ \E b \in BOOLEAN : CollapseMutationlessEdges(b)
  \/ \E m \in RelabelMaps(network) : RelabelNodes(m)
  \/ \E t \in InitTrees : PopulateTree(t)

StructuralQueries ==
  \/ QueryRoot
  \/ QueryLeaves
  \/ QueryInternalNodes
  \/ QueryNodes
  \/ QueryEdges
  \/ \E n \in Names : GetCharacterStates(n)
  \/ \E n \in Names : GetAllAncestors(n)
  \/ \E n \in Names : LeavesInSubtree(n)

DistanceQueries ==
  \/ \E a \in Names, b \in Names : GetDistance(a, b)
  \/ \E n \in Names, b \in BOOLEAN : GetDistances(n, b)

\* a tree object whose times, lengths and topology are edited
Next == Setters \/ Surgery

Spec == Init /\ [][Next]_vars

\* a tree object whose topology is edited and queried
NextCache == Surgery \/ StructuralQueries

SpecCache == Init /\ [][NextCache]_vars

\* a tree object whose times and lengths are set and whose distances are
\* queried
NextDistances == Setters \/ DistanceQueries

SpecDistances == Init /\ [][NextDistances]_vars

\* a tree object that is queried by a caller that writes to the containers
\* it is handed
NextAliasing ==
  StructuralQueries \/ DistanceQueries \/ \E x \in Names : CallerMutates(x)

SpecAliasing == Init /\ [][NextAliasing]_vars

\* ------------------------------------------------------------ properties
\* for every edge (u, v): time(v) = time(u) + length(u, v)
\* ---------------------------------- removing the leaves of a tree one by one
\* every tree on the first k names with root r, for k up to K, given by the
\* parent of each node but the first and the order of the children
RECURSIVE ReachesRoot(_, _, _)
ReachesRoot(f, i, steps) ==
  IF i = 1 THEN TRUE
  ELSE IF steps = 0 THEN FALSE
  ELSE ReachesRoot(f, f[i], steps - 1)

Reversed(q) == [i \in 1..Len(q) |-> q[Len(q) + 1 - i]]

\* the children of a node in the order of NodeNames, or in the reverse order
TreeOfParents(k, f, rev) ==
  [nodes |-> SubSeq(NodeNames, 1, k),
   succ |-> [n \in {NodeNames[i] : i \in 1..k} |->
               LET kids == SelectSeq(SubSeq(NodeNames, 1, k),
                                     LAMBDA m : \E i \in 2..k :
                                                  NodeNames[i] = m /\ NodeNames[f[i]] = n)
               IN IF rev THEN Reversed(kids) ELSE kids]]

TreesUpTo(K) ==
  UNION {{TreeOfParents(k, f, rev) :
            f \in {h \in [2..k -> 1..k] : \A i \in 2..k : ReachesRoot(h, i, k)},
            rev \in BOOLEAN} :
         k \in 1..K}

AllTrees == TreesUpTo(MaxNodes)

\* one tree of every shape on up to K nodes: every node but the first has its
\* parent among the nodes named before it
ShapesUpTo(K) ==
  UNION {{TreeOfParents(k, f, FALSE) :
            f \in {h \in [2..k -> 1..k] : \A i \in 2..k : h[i] < i}} :
         k \in 1..K}

\* the leaves the tree was constructed with: the rows of the original matrix
OriginalLeaves ==
  IF IsNone(original_character_matrix) THEN {}
  ELSE DOMAIN Val(original_character_matrix).rows

InitPruning ==
  \E tree \in AllTrees : \E with_tables \in BOOLEAN :
    Constructed(tree, CHOOSE cm \in InitMatrices(tree) : ~IsNone(cm), with_tables)

\* remove a leaf the tree was constructed with and that has not been removed
PruneLeaf(node) ==
  /\ node \in OriginalLeaves \cap NodeSet(network)
  /\ RemoveLeafAndPruneLineageCall(node)

NextPruning == \E node \in Names : PruneLeaf(node)

SpecPruning == InitPruning /\ [][NextPruning]_vars

\* ------------------------------------------- lowest common ancestor queries
\* the arguments of find_lca: none, one node, one node twice, two or more
\* distinct nodes of the tree, a node and a name that is not in the tree
LcaArgs(g) ==
  {<<>>}
  \cup {<<n>> : n \in NodeSet(g)} \cup {<<n, n>> : n \in NodeSet(g)}
  \cup {Sorted(S) : S \in {T \in SUBSET NodeSet(g) : Cardinality(T) >= 2}}
  \cup {<<n, NodeNames[Len(g.nodes) + 1]>> : n \in NodeSet(g)}

FindLca(args) ==
  LET r == find_lca(network, cache, SeqToSet(args))
  IN /\ calls < MaxCalls
     /\ cache' = r.cache
     /\ Returned("find_lca", r.ok)
     /\ UNCHANGED <<network, tables>>

\* the tree shapes of up to MaxNodes + 1 nodes: the smallest tree with two
\* leaves below an inner node and a third leaf below the root has five nodes
InitLca ==
  \E tree \in ShapesUpTo(MaxNodes + 1) : Constructed(tree, None, FALSE)

NextLca == \E args \in LcaArgs(network) : FindLca(args)

SpecLca == InitLca /\ [][NextLca]_vars

\* ------------------------------------------- ancestral reconstruction
\* the state vectors a leaf may carry: all characters observed, the last
\* one missing, or the first one in a state no other vector has
LeafVectors ==
  {[i \in 1..NumChars |-> Scalar(i)],
   [i \in 1..NumChars |-> IF i = NumChars THEN Missing ELSE Scalar(i)],
   [i \in 1..NumChars |-> IF i = 1 THEN Scalar(NumChars + 1) ELSE Scalar(i)]}

\* tree.reconstruct_ancestral_characters()
ReconstructAncestralCharacters ==
  LET r == reconstruct_ancestral_characters(network, cache)
  IN /\ calls < MaxCalls
     /\ network' = r.net
     /\ cache' = r.cache
     /\ Returned("reconstruct_ancestral_characters", r.ok)
     /\ UNCHANGED tables

\* a tree constructed without a character matrix, or with one that gives
\* every leaf one of the vectors above
InitCharacters ==
  \E tree \in ShapesUpTo(MaxNodes) :
    LET L == {n \in SeqToSet(tree.nodes) : Len(tree.succ[n]) = 0}
    IN \E cm \in {None} \cup {Some(Matrix(rows)) : rows \in [L -> LeafVectors]} :
         Constructed(tree, cm, FALSE)

NextCharacters == ReconstructAncestralCharacters

SpecCharacters == InitCharacters /\ [][NextCharacters]_vars

\* ------------------------------------------------- leaf data upkeep
\* the calls that change the leaf set or the leaf names
LeafSetMutators ==
  \/ \E p \in Names, n \in Names : AddLeaf(p, n)
  \/ \E n \in Names : RemoveLeafAndPruneLineage(n)
  \/ \E s \in {None} \cup {Some(n) : n \in Names} : CollapseUnifurcations(s)
  \/ \E b \in BOOLEAN : CollapseMutationlessEdges(b)
  \/ \E m \in RelabelMaps(network) : RelabelNodes(m)

SpecLeafData == Init /\ [][LeafSetMutators]_vars

\* the calls that add or remove nodes
TopologySurgery ==
  \/ \E p \in Names, n \in Names : AddLeaf(p, n)
  \/ \E n \in Names : RemoveLeafAndPruneLineage(n)
  \/ \E s \in {None} \cup {Some(n) : n \in Names} : CollapseUnifurcations(s)
  \/ \E b \in BOOLEAN : CollapseMutationlessEdges(b)

SpecSurgery == Init /\ [][TopologySurgery]_vars

\* ------------------------------------------------- character state edits
\* state vectors with ambiguous entries: the first entry a tuple that names
\* one candidate twice, or every entry a tuple of two candidates
AmbiguousVectors ==
  {[i \in 1..NumChars |-> IF i = 1 THEN Ambiguous(<<1, 2, 1>>) ELSE Scalar(i)],
   [i \in 1..NumChars |-> Ambiguous(<<2, 1>>)]}

\* states arguments: vectors of the right length, the empty vector and a
\* vector one state too long
StateArgs ==
  {[i \in 1..NumChars |-> Scalar(i)], <<>>,
   [i \in 1..(NumChars + 1) |-> Scalar(i)]} \cup AmbiguousVectors

\* the number of np.random.choice calls one resolve_ambiguous_characters
\* makes: one for every ambiguous entry of every node
choice_calls(g) ==
  IF g = None THEN 0
  ELSE Cardinality({q \in UNION {{<<n, i>> : i \in 1..Len(g.states[n])}
                              : n \in DOMAIN g.states}
                 : g.states[q[1]][q[2]].k = "tuple"})

\* the largest number of tied candidates of an ambiguous entry
max_ties(g) ==
  LET T == IF g = None THEN {} ELSE
           {Len(most_common_ties(g.states[q[1]][q[2]].v))
              : q \in {p \in UNION {{<<n, i>> : i \in 1..Len(g.states[n])}
                                      : n \in DOMAIN g.states}
                         : g.states[p[1]][p[2]].k = "tuple"}}
  IN IF T = {} THEN 1 ELSE CHOOSE m \in T : \A x \in T : x <= m

\* the numbers np.random.choice draws during one call: every call is a
\* draw of its own
Draws(g) == [1..choice_calls(g) -> 0..(max_ties(g) - 1)]

\* set_character_states on an object whose two matrices are one DataFrame
SetCharacterStatesSharedMatrix(node, states) ==
  LET r == set_character_states(network, cache, current_character_matrix,
                                node, states)
  IN /\ calls < MaxCalls
     /\ network' = r.net
     /\ cache' = r.cache
     /\ current_character_matrix' = r.ccm
     /\ original_character_matrix' = r.ccm
     /\ Returned("set_character_states", r.ok)
     /\ UNCHANGED <<cell_meta, dissimilarity_map>>

\* tree.set_character_states(node, states)
SetCharacterStates(node, states) ==
  LET r == set_character_states(network, cache, current_character_matrix,
                                node, states)
  IN /\ calls < MaxCalls
     /\ network' = r.net
     /\ cache' = r.cache
     /\ current_character_matrix' = r.ccm
     /\ Returned("set_character_states", r.ok)
     /\ UNCHANGED <<original_character_matrix, cell_meta, dissimilarity_map>>

\* tree.collapse_ambiguous_characters()
CollapseAmbiguousCharacters ==
  LET r == collapse_ambiguous_characters(network, cache, current_character_matrix)
  IN /\ calls < MaxCalls
     /\ network' = r.net
     /\ cache' = r.cache
     /\ current_character_matrix' = r.ccm
     /\ Returned("collapse_ambiguous_characters", r.ok)
     /\ UNCHANGED <<original_character_matrix, cell_meta, dissimilarity_map>>

\* tree.resolve_ambiguous_characters()
ResolveAmbiguousCharacters(draws) ==
  LET r == resolve_ambiguous_characters(network, cache,
                                        current_character_matrix, draws)
  IN /\ calls < MaxCalls
     /\ network' = r.net
     /\ cache' = r.cache
     /\ current_character_matrix' = r.ccm
     /\ Returned("resolve_ambiguous_characters", r.ok)
     /\ UNCHANGED <<original_character_matrix, cell_meta, dissimilarity_map>>

\* a tree constructed without a character matrix, or with one whose rows
\* are fully observed or ambiguous
InitStates ==
  \E tree \in InitTrees :
    LET L == {n \in SeqToSet(tree.nodes) : Len(tree.succ[n]) = 0}
    IN \E cm \in {None} \cup
                 {Some(Matrix(rows)) :
                    rows \in [L -> {[i \in 1..NumChars |-> Scalar(i)]}
                                   \cup AmbiguousVectors]} :
         Constructed(tree, cm, FALSE)

StateEdits ==
  \/ \E n \in Names, states \in StateArgs : SetCharacterStates(n, states)
  \/ CollapseAmbiguousCharacters
  \/ \E draws \in Draws(network) : ResolveAmbiguousCharacters(draws)
  \/ ReconstructAncestralCharacters

NextStates ==
  \/ StateEdits
  \/ \E p \in Names, n \in Names : AddLeaf(p, n)
  \/ \E n \in Names : RemoveLeafAndPruneLineage(n)

SpecStates == InitStates /\ [][NextStates]_vars

\* tree.get_original_character_matrix()
get_original_character_matrix(ocm) ==
  IF IsNone(ocm) THEN [val |-> None, ok |-> FALSE]
  ELSE [val |-> Val(ocm), ok |-> TRUE]

Collapses ==
  \/ \E s \in {None} \cup {Some(n) : n \in Names} : CollapseUnifurcations(s)
  \/ \E b \in BOOLEAN : CollapseMutationlessEdges(b)

SpecOriginal == InitStates /\ [][NextStates \/ Collapses]_vars

\* ------------------------------------------------ before a topology exists
\* a check that lets every object pass
check_network_initialized_skipped(g) == TRUE

\* __check_network_initialized: self.__network is None until populate_tree
check_network_initialized(g) == g # None

\* the accessors and mutators whose first statement is the check
CheckedMethods ==
  {"root", "leaves", "internal_nodes", "nodes", "edges", "is_leaf", "parent",
   "children", "get_time", "set_time", "set_branch_length", "add_leaf",
   "remove_leaf_and_prune_lineage", "collapse_unifurcations", "find_lca",
   "get_distance"}

\* a call of one of these methods, whatever its arguments, on an object
\* that has no topology: the first statement decides
CallWithoutTopology(method) ==
  /\ network = None
  /\ calls < MaxCalls
  /\ Returned(method, check_network_initialized(network))
  /\ UNCHANGED <<network, cache, tables>>

\* CassiopeiaTree() and CassiopeiaTree(character_matrix=...) without a tree
InitWithoutTree ==
  \E cm \in {None} \cup {Some(Matrix(rows)) : rows \in [{"a", "b"} -> LeafVectors]} :
    /\ network = None
    /\ cache = EmptyCache
    /\ current_character_matrix = cm
    /\ original_character_matrix = cm
    /\ cell_meta = None
    /\ dissimilarity_map = None
    /\ op = [name |-> "__init__", ok |-> TRUE]
    /\ allOk = TRUE
    /\ calls = 0
    /\ held = None
    /\ frame = None

NextWithoutTree ==
  \/ \E method \in CheckedMethods : CallWithoutTopology(method)
  \/ network = None /\ \E t \in InitTrees : PopulateTree(t)
  \/ network # None /\ StructuralQueries

SpecWithoutTree == InitWithoutTree /\ [][NextWithoutTree]_vars

TimeInvariant(g) ==
  \A e \in EdgeSet(g) :
    /\ e \in DOMAIN g.length
    /\ e[1] \in DOMAIN g.time /\ e[2] \in DOMAIN g.time
    /\ g.time[e[2]] = g.time[e[1]] + g.length[e]

Descendants(g, n) == SeqToSet(dfs_preorder_nodes(g, n))

SameTimesAndLengths(g, h) == g.time = h.time /\ g.length = h.length

\* C1: as long as every call made on a freshly ingested tree has returned
\* normally, every edge (u, v) satisfies time(v) = time(u) + length(u, v).
C1_TimeInvariantAfterNormalReturns == allOk => TimeInvariant(network)

\* two calls returned normally, the last one a collapse that replaced the
\* path r -> a -> c by an edge with the sum of its lengths
C1_Witness ==
  /\ allOk /\ calls = MaxCalls
  /\ op.name = "collapse_unifurcations"
  /\ "a" \notin NodeSet(network)
  /\ <<"r", "c">> \in EdgeSet(network)
  /\ network.length[<<"r", "c">>] = 2 /\ network.time["c"] = 2

\* C2: a set_times call that is given a time for every node and fails on an
\* edge with time(parent) > time(child) leaves every time and every edge
\* length as it was.
C2_FailedSetTimesChangesNothing ==
  [][\A d \in TimeDicts(network) :
       (/\ SetTimes(d)
        /\ DictKeys(d) = NodeSet(network)
        /\ \E e \in EdgeSet(network) : DictVal(d, e[1]) > DictVal(d, e[2]))
       => (~op'.ok /\ SameTimesAndLengths(network', network))]_vars

\* C3: a set_branch_lengths call that fails leaves every time and every edge
\* length as it was.
C3_FailedSetBranchLengthsChangesNothing ==
  [][\A d \in BranchLengthDicts(network) :
       (/\ SetBranchLengths(d)
        /\ \E i \in 1..Len(d) : d[i][1] \notin EdgeSet(network) \/ d[i][2] < 0)
       => (~op'.ok /\ SameTimesAndLengths(network', network))]_vars

\* C7: for a non-root node n, set_time(n, t) fails and changes no time and no
\* length exactly when t < time(parent(n)) or t > time(c) for a child c;
\* otherwise it stores t, makes the incoming length t - time(parent(n)) and
\* each outgoing length time(c) - t, and changes nothing else.
C7_SetTimeContract ==
  [][\A n \in Names, t \in Times :
       (SetTime(n, t) /\ has_node(network, n) /\ ~is_root(network, n))
       => LET g == network
              p == parent(g, n)
              kids == SeqToSet(children(g, n))
          IN IF t < g.time[p] \/ \E k \in kids : t > g.time[k]
               THEN ~op'.ok /\ SameTimesAndLengths(network', g)
               ELSE /\ op'.ok
                    /\ network'.time = [g.time EXCEPT ![n] = t]
                    /\ network'.length =
                         [e \in DOMAIN g.length |->
                            IF e = <<p, n>> THEN t - g.time[p]
                            ELSE IF e[1] = n THEN g.time[e[2]] - t
                            ELSE g.length[e]]]_vars

\* the one call made so far is a set_time that returned normally and moved
\* an inner node, changing its incoming and its outgoing length
C7_Witness ==
  /\ calls = 1 /\ op.name = "set_time" /\ op.ok
  /\ \E e \in EdgeSet(network), f \in EdgeSet(network) :
       e[2] = f[1] /\ network.length[e] # 1 /\ network.length[f] # 1

\* C8: where the time invariant holds, set_branch_length(parent, child, L)
\* fails with the tree unchanged if (parent, child) is not an edge or L < 0;
\* otherwise it sets that length to L, shifts the time of every node of the
\* subtree of child by L minus the old length, and changes no other time and
\* no other length.
C8_SetBranchLengthContract ==
  [][\A k \in BranchKeys(network), l \in Lengths :
       (SetBranchLength(k[1], k[2], l) /\ TimeInvariant(network))
       => LET g == network
          IN IF k \notin EdgeSet(g) \/ l < 0
               THEN ~op'.ok /\ network' = g
               ELSE /\ op'.ok
                    /\ network'.length = [g.length EXCEPT ![k] = l]
                    /\ network'.time =
                         [n \in DOMAIN g.time |->
                            IF n \in Descendants(g, k[2])
                              THEN g.time[n] + (l - g.length[k])
                              ELSE g.time[n]]]_vars

\* set_branch_length returned normally after shortening the edge above an
\* inner node, whose descendants moved with it
C8_Witness ==
  /\ allOk /\ op.name = "set_branch_length"
  /\ \E e \in EdgeSet(network) :
       /\ network.length[e] = 0
       /\ is_internal_node(network, e[2]).val
       /\ \E c \in Descendants(network, e[2]) \ {e[2]} : network.time[c] = 1

\* C9: add_leaf(parent, node) fails if node is in the tree, if parent is not
\* in the tree, or if parent is a leaf, and then the graph, the times, the
\* lengths, the character states and the leaf indexed tables are unchanged.
C9_FailedAddLeafChangesNothing ==
  [][\A p \in Names, n \in Names :
       (/\ AddLeaf(p, n)
        /\ (has_node(network, n) \/ ~has_node(network, p) \/ is_leaf(network, p)))
       => (~op'.ok /\ network' = network /\ UNCHANGED tables)]_vars

\* add_leaf was refused because the parent is a leaf: the leaves were looked up
C9_Witness ==
  /\ calls = 1 /\ op.name = "add_leaf" /\ ~op.ok
  /\ ~IsNone(cache.leaves)
  /\ Len(network.nodes) < MaxNodes

\* C10: a successful add_leaf(parent, node) makes node a new leaf below parent
\* with length 0 and the time of parent, changes no node, edge, time or
\* length that existed before, and node is then among the leaves.
C10_AddLeafContract ==
  [][\A p \in Names, n \in Names :
       (AddLeaf(p, n) /\ op'.ok)
       => /\ NodeSet(network') = NodeSet(network) \cup {n}
          /\ n \notin NodeSet(network)
          /\ EdgeSet(network') = EdgeSet(network) \cup {<<p, n>>}
          /\ network'.length[<<p, n>>] = 0
          /\ network'.time[n] = network'.time[p]
          /\ \A m \in NodeSet(network) : network'.time[m] = network.time[m]
          /\ \A e \in EdgeSet(network) : network'.length[e] = network.length[e]
          /\ n \in SeqToSet(leaves(network', cache').val)]_vars

\* the distance of a and b computed from the node times of g
FreshDistance(g, a, b) ==
  IF a = b THEN 0
  ELSE (g.time[a] - g.time[lca_of_pair(g, a, b)])
       + (g.time[b] - g.time[lca_of_pair(g, a, b)])

\* C4: whatever distance queries and time or length setters were called
\* before, get_distance(a, b) returns (time(a) - time(lca)) + (time(b) -
\* time(lca)) of the current node times, and 0 when a = b.
C4_DistancesFollowTimes ==
  \A a \in NodeSet(network), b \in NodeSet(network) :
    get_distance(network, cache, a, b).val = FreshDistance(network, a, b)

\* C5: whatever topology mutations and queries were called before, root,
\* leaves, internal_nodes, nodes, edges, get_all_ancestors(n) and
\* leaves_in_subtree(n) return what a computation over the current graph
\* returns.
C5_StructuralQueriesAreFresh ==
  /\ root(network, cache).ok = (Len(network.nodes) > 0)
  /\ root(network, cache).ok => root(network, cache).val = fresh_roots(network)[1]
  /\ leaves(network, cache).val = fresh_leaves(network)
  /\ internal_nodes(network, cache).val = fresh_internal_nodes(network)
  /\ nodes(network, cache).val = fresh_nodes(network)
  /\ edges(network, cache).val = fresh_edges(network)
  /\ \A n \in NodeSet(network) :
       /\ get_all_ancestors(network, cache, n).val = fresh_ancestors(network, n)
       /\ leaves_in_subtree(network, cache, n).ok
       /\ leaves_in_subtree(network, cache, n).val = fresh_subtree(network, n)

\* a relabel_nodes renamed an inner node to c and dropped the constructor's
\* cache, and get_all_ancestors has stored a chain through c since
C5_Witness ==
  /\ op.name = "get_all_ancestors" /\ op.ok /\ calls = MaxCalls
  /\ IsNone(cache.nodes)
  /\ \E n \in DOMAIN cache.ancestors : "c" \in SeqToSet(cache.ancestors[n])

\* C6: when the caller changes a container that a query returned, the same
\* query, repeated with no tree mutation in between, still returns what it
\* returned before.
C6_ReturnedContainersAreCopies ==
  [][\A x \in Names :
       CallerMutates(x)
       => QueryValue(network', cache', Val(held))
            = QueryValue(network, cache, Val(held))]_vars

\* the graph g without the nodes of R
Restricted(g, R) ==
  [nodes  |-> SelectSeq(g.nodes, LAMBDA m : m \notin R),
   succ   |-> [m \in NodeSet(g) \ R |-> SelectSeq(g.succ[m], LAMBDA k : k \notin R)],
   time   |-> [m \in (DOMAIN g.time) \ R |-> g.time[m]],
   length |-> [e \in {x \in DOMAIN g.length : x[1] \notin R /\ x[2] \notin R} |->
                 g.length[e]],
   states |-> [m \in (DOMAIN g.states) \ R |-> g.states[m]]]

SameTopologyAndTimes(g, h) ==
  /\ g.nodes = h.nodes /\ g.succ = h.succ
  /\ g.time = h.time /\ g.length = h.length

\* node and the non-root ancestors of node below which node is the only leaf
PrunedLineage(g, node) ==
  {node} \cup {a \in SeqToSet(fresh_ancestors(g, node)) :
                 ~is_root(g, a) /\ SeqToSet(fresh_subtree(g, a)) = {node}}

\* C11: remove_leaf_and_prune_lineage(node) fails with the tree unchanged if
\* node is not a leaf; otherwise it removes node and the chain of non-root
\* ancestors left childless, every surviving node keeps its parent, its
\* children order, its time and its edge lengths, and no surviving non-root
\* node becomes a leaf.
C11_RemoveLeafContract ==
  [][\A n \in Names :
       RemoveLeafAndPruneLineage(n)
       => IF ~is_leaf(network, n)
            THEN ~op'.ok /\ network' = network /\ UNCHANGED tables
            ELSE /\ op'.ok
                 /\ SameTopologyAndTimes(
                      network', Restricted(network, PrunedLineage(network, n)))
                 /\ \A m \in NodeSet(network') :
                      (is_leaf(network', m) /\ ~is_leaf(network, m))
                      => is_root(network', m)]_vars

\* the one call made removed leaf b of the chain r -> a -> b and pruned a
C11_Witness ==
  /\ calls = 1 /\ op.name = "remove_leaf_and_prune_lineage" /\ op.ok
  /\ network.nodes = <<"r">>
\* C12: once every leaf the tree was constructed with has been removed by
\* remove_leaf_and_prune_lineage, in any order, the tree consists of the root
\* and of no other node.
C12_PruningEndsAtRoot ==
  (allOk /\ OriginalLeaves \cap NodeSet(network) = {})
  => network.nodes = <<"r">>
\* the sum of the edge lengths of the path of g from the ancestor u down to v
RECURSIVE PathLength(_, _, _)
PathLength(g, u, v) ==
  IF u = v THEN 0
  ELSE g.length[<<parent(g, v), v>>] + PathLength(g, u, parent(g, v))

\* the ancestor relation of g on the nodes of S
AncestorRelation(g, S) ==
  {p \in S \X S : p[1] \in SeqToSet(fresh_ancestors(g, p[2]))}

\* C13: collapse_unifurcations() from the root of a tree that satisfies the
\* time invariant leaves no node with exactly one child, removes nodes only,
\* keeps the time of every surviving node, gives every edge the summed length
\* of the path it stands for, and keeps the ancestor relation among the
\* surviving nodes.
C13_CollapseUnifurcationsContract ==
  [][(/\ CollapseUnifurcations(None)
      /\ Len(network.nodes) > 0
      /\ TimeInvariant(network))
     => /\ op'.ok
        /\ \A n \in NodeSet(network') : Len(children(network', n)) # 1
        /\ NodeSet(network') \subseteq NodeSet(network)
        /\ \A n \in NodeSet(network') : network'.time[n] = network.time[n]
        /\ \A e \in EdgeSet(network') :
             /\ e[1] \in SeqToSet(fresh_ancestors(network, e[2]))
             /\ network'.length[e] = PathLength(network, e[1], e[2])
        /\ AncestorRelation(network', NodeSet(network'))
             = AncestorRelation(network, NodeSet(network'))]_vars

\* the one call made collapsed the path r -> a -> c of the tree r -> (a -> c, b)
C13_Witness ==
  /\ calls = 1 /\ op.name = "collapse_unifurcations" /\ op.ok
  /\ network.nodes = <<"r", "b", "c">>
  /\ network.length[<<"r", "c">>] = 2
\* C14: a collapse_unifurcations or collapse_mutationless_edges call that
\* returns normally leaves the set of leaves as it was.
C14_CollapseKeepsLeaves ==
  [][((\/ \E source \in {None} \cup {Some(n) : n \in Names} :
            CollapseUnifurcations(source)
       \/ \E infer \in BOOLEAN : CollapseMutationlessEdges(infer))
      /\ op'.ok)
     => SeqToSet(fresh_leaves(network')) = SeqToSet(fresh_leaves(network))]_vars
\* C15: collapse_mutationless_edges(infer_ancestral_characters = False) on a
\* tree that satisfies the time invariant leaves no edge (n, c) with c not a
\* leaf and the states of n and c identical; every node it removes was not a
\* leaf and had the states of its parent; the surviving nodes keep their
\* times, their states and their ancestor relation, and every edge carries
\* the summed length of the path it stands for.
C15_CollapseMutationlessContract ==
  [][(/\ CollapseMutationlessEdges(FALSE)
      /\ Len(network.nodes) > 0
      /\ TimeInvariant(network))
     => /\ op'.ok
        /\ \A e \in EdgeSet(network') :
             is_leaf(network', e[2])
             \/ network'.states[e[1]] # network'.states[e[2]]
        /\ NodeSet(network') \subseteq NodeSet(network)
        /\ \A m \in NodeSet(network) \ NodeSet(network') :
             /\ ~is_leaf(network, m) /\ ~is_root(network, m)
             /\ network.states[m] = network.states[parent(network, m)]
        /\ \A n \in NodeSet(network') : network'.time[n] = network.time[n]
        /\ network'.states = [n \in DOMAIN network'.states |-> network.states[n]]
        /\ \A e \in EdgeSet(network') :
             /\ e[1] \in SeqToSet(fresh_ancestors(network, e[2]))
             /\ network'.length[e] = PathLength(network, e[1], e[2])
        /\ AncestorRelation(network', NodeSet(network'))
             = AncestorRelation(network, NodeSet(network'))]_vars

\* the one call made, on the tree r -> (a -> c, b) without character matrix,
\* removed a, whose empty state vector is that of r
C15_Witness ==
  /\ calls = 1 /\ op.name = "collapse_mutationless_edges" /\ op.ok
  /\ IsNone(current_character_matrix)
  /\ network.nodes = <<"r", "b", "c">>
  /\ network.length[<<"r", "c">>] = 2
\* the nodes that are an ancestor of, or equal to, every node of S
CommonAncestors(g, S) ==
  {x \in NodeSet(g) : \A n \in S : x \in SeqToSet(SelfAndAncestors(g, n))}

\* the common ancestor of S farthest from the root
DeepestCommonAncestor(g, S) ==
  CHOOSE x \in CommonAncestors(g, S) :
    \A y \in CommonAncestors(g, S) :
      Len(fresh_ancestors(g, y)) <= Len(fresh_ancestors(g, x))

\* C16: for every set S of two or more distinct nodes of the tree, find_lca
\* returns the deepest node that is an ancestor of, or equal to, every node
\* of S.
C16_FindLcaIsDeepestCommonAncestor ==
  \A S \in SUBSET NodeSet(network) :
    Cardinality(S) >= 2
    => LET l == find_lca(network, cache, S)
       IN l.ok /\ l.val = DeepestCommonAncestor(network, S)

\* find_lca was called on the tree r -> (a -> (b, c), d): the LCA of the
\* leaves b, c is a, the LCA of b, c, d is the root, the LCA of a and its
\* child b is a
C16_Witness ==
  /\ op.name = "find_lca" /\ op.ok
  /\ network.nodes = <<"r", "a", "b", "c", "d">>
  /\ network.succ["r"] = <<"a", "d">> /\ network.succ["a"] = <<"b", "c">>
  /\ find_lca(network, cache, {"b", "c"}).val = "a"
  /\ find_lca(network, cache, {"b", "c", "d"}).val = "r"
  /\ find_lca(network, cache, {"a", "b"}).val = "a"

\* C17: find_lca called with fewer than two distinct nodes fails and changes
\* neither the tree nor the cache nor the tables.
C17_FindLcaNeedsTwoNodes ==
  [][\A args \in LcaArgs(network) :
       (Cardinality(SeqToSet(args)) < 2 /\ FindLca(args))
       => (~op'.ok /\ network' = network /\ cache' = cache /\ UNCHANGED tables)]_vars

\* the one call made is a refused find_lca on a tree of five nodes
C17_Witness ==
  /\ calls = 1 /\ op.name = "find_lca" /\ ~op.ok /\ ~allOk
  /\ Len(network.nodes) = MaxNodes + 1
\* the restriction of the distance dict d to the leaves of g
LeafDistances(g, d) == [x \in {y \in DOMAIN d : is_leaf(g, y)} |-> d[x]]

\* C18: for every pair of nodes (x, y), get_distances(x)[y] equals
\* get_distance(x, y) when the two calls follow each other in either order,
\* and get_distances(x, leaves_only = True) is the restriction of
\* get_distances(x) to the leaves.
C18_BulkDistancesAgree ==
  \A x \in NodeSet(network), y \in NodeSet(network) :
    LET bulk == get_distances(network, cache, x, FALSE)
        then_one == get_distance(network, bulk.cache, x, y)
        one == get_distance(network, cache, x, y)
        then_bulk == get_distances(network, one.cache, x, FALSE)
        only_leaves == get_distances(network, bulk.cache, x, TRUE)
    IN /\ bulk.ok /\ then_one.ok /\ one.ok /\ then_bulk.ok /\ only_leaves.ok
       /\ bulk.val[y] = then_one.val
       /\ then_bulk.val[y] = one.val
       /\ only_leaves.val = LeafDistances(network, bulk.val)

\* the leaves below a node, the node itself when it is a leaf
LeavesBelow(g, n) == {x \in SeqToSet(fresh_subtree(g, n)) : is_leaf(g, x)}

\* the state every leaf below n shares at position i when that state is not
\* the missing one, and the missing state otherwise
LeafConsensus(g, n, i) ==
  LET below == LeavesBelow(g, n)
      first == g.states[CHOOSE x \in below : TRUE][i]
  IN IF first # Missing /\ \A x \in below : g.states[x][i] = first
       THEN first ELSE Missing

\* C19: on a tree whose leaves all carry non-empty state vectors,
\* reconstruct_ancestral_characters returns normally and leaves every
\* internal node with, per position, the state all its children agree on
\* when that state is not missing and the missing state otherwise, the
\* children being reconstructed first; the leaves' vectors, the topology,
\* the times and the branch lengths are unchanged.
C19_ReconstructionIsBottomUpConsensus ==
  [][(ReconstructAncestralCharacters
      /\ \A x \in NodeSet(network) :
           is_leaf(network, x) => Len(network.states[x]) > 0)
     => /\ op'.ok
        /\ SameTopologyAndTimes(network', network)
        /\ \A n \in NodeSet(network) :
             network'.states[n] =
               IF is_leaf(network, n) THEN network.states[n]
               ELSE [i \in 1..NumChars |-> LeafConsensus(network, n, i)]]_vars

\* a reconstruction has given an internal node one state its children agree
\* on and one missing state where its children do not agree
C19_Witness ==
  /\ op = [name |-> "reconstruct_ancestral_characters", ok |-> TRUE]
  /\ \E n \in NodeSet(network) :
       /\ Len(children(network, n)) >= 2
       /\ \E i \in 1..NumChars, j \in 1..NumChars :
            /\ network.states[n][i] = Missing
            /\ \E x \in SeqToSet(children(network, n)),
                  y \in SeqToSet(children(network, n)) :
                 /\ network.states[x][i] # Missing
                 /\ network.states[y][i] # Missing
                 /\ network.states[x][i] # network.states[y][i]
            /\ network.states[n][j] # Missing
            /\ \A x \in SeqToSet(children(network, n)) :
                 network.states[x][j] = network.states[n][j]

\* C20: whenever the tree has a current character matrix, after every
\* add_leaf, remove_leaf_and_prune_lineage, collapse_unifurcations,
\* collapse_mutationless_edges or relabel_nodes call that returns, the rows
\* of the matrix are exactly the leaves of the tree.
C20_MatrixRowsAreLeaves ==
  (op.ok /\ ~IsNone(current_character_matrix))
  => DOMAIN Val(current_character_matrix).rows = SeqToSet(fresh_leaves(network))

\* C21: after any sequence of set_character_states,
\* collapse_ambiguous_characters, resolve_ambiguous_characters,
\* reconstruct_ancestral_characters, add_leaf and
\* remove_leaf_and_prune_lineage calls, every leaf that has a row in the
\* current character matrix has that row equal to its state vector.
C21_MatrixRowsFollowLeafStates ==
  ~IsNone(current_character_matrix)
  => \A l \in DOMAIN Val(current_character_matrix).rows :
       is_leaf(network, l)
       => /\ get_character_states(network, l).ok
          /\ Val(current_character_matrix).rows[l] =
               get_character_states(network, l).val

\* a leaf's states were edited after construction and its row shows the edit
C21_Witness ==
  /\ op = [name |-> "set_character_states", ok |-> TRUE]
  /\ ~IsNone(current_character_matrix) /\ ~IsNone(original_character_matrix)
  /\ \E l \in DOMAIN Val(current_character_matrix).rows :
       /\ is_leaf(network, l)
       /\ l \in DOMAIN Val(original_character_matrix).rows
       /\ Val(current_character_matrix).rows[l] #
            Val(original_character_matrix).rows[l]
       /\ Val(current_character_matrix).rows[l] = network.states[l]

\* C22: no set_character_states, collapse_ambiguous_characters,
\* resolve_ambiguous_characters, reconstruct_ancestral_characters, add_leaf,
\* remove_leaf_and_prune_lineage, collapse_unifurcations or
\* collapse_mutationless_edges call changes what
\* get_original_character_matrix returns.
C22_OriginalMatrixIsImmutable ==
  [][get_original_character_matrix(original_character_matrix') =
     get_original_character_matrix(original_character_matrix)]_vars

\* calls have changed both the rows and the leaf set of the current matrix
\* of a tree that has an original matrix
C22_Witness ==
  /\ allOk /\ calls = MaxCalls
  /\ get_original_character_matrix(original_character_matrix).ok
  /\ ~IsNone(current_character_matrix)
  /\ DOMAIN Val(current_character_matrix).rows #
       DOMAIN Val(original_character_matrix).rows
  /\ \E l \in DOMAIN Val(current_character_matrix).rows
              \cap DOMAIN Val(original_character_matrix).rows :
       Val(current_character_matrix).rows[l] #
         Val(original_character_matrix).rows[l]

\* C23: set_character_states(node, states) raises when the length of states
\* differs from the tree's character count, and when node is a leaf whose
\* state vector is empty; the raising call changes neither a node's state
\* vector nor the current character matrix.
C23_SetCharacterStatesValidates ==
  [][\A n \in Names, states \in StateArgs :
       ((\/ Len(states) # n_character(network, cache, current_character_matrix).val
         \/ (is_leaf(network, n) /\ get_character_states(network, n).val = <<>>))
        /\ SetCharacterStates(n, states))
       => /\ ~op'.ok
          /\ network'.states = network.states
          /\ current_character_matrix' = current_character_matrix]_vars

\* a vector of the wrong length was refused at a node of a tree with a
\* character matrix in which every name is a node
C23_Witness ==
  /\ op = [name |-> "set_character_states", ok |-> FALSE]
  /\ ~IsNone(current_character_matrix)
  /\ NodeSet(network) = Names

\* the state vectors of all nodes, each ambiguous entry taken as the set of
\* its distinct candidates
CandidateSets(g) ==
  [n \in DOMAIN g.states |->
     [i \in 1..Len(g.states[n]) |->
        IF g.states[n][i].k = "tuple"
          THEN [k |-> "tuple", v |-> SeqToSet(g.states[n][i].v)]
          ELSE g.states[n][i]]]

\* C24: collapse_ambiguous_characters keeps the set of distinct candidates
\* of every ambiguous entry; a second call leaves the state vectors,
\* ambiguous entries compared as sets, as the first call left them; on a
\* tree without an ambiguous entry the call changes no state vector; and
\* when the call returns normally every ambiguous entry names each of its
\* candidates once.
C24_CollapseAmbiguousIsIdempotent ==
  [][CollapseAmbiguousCharacters
     => LET again == collapse_ambiguous_characters(network', cache',
                                                   current_character_matrix')
        IN /\ CandidateSets(network') = CandidateSets(network)
           /\ op'.ok =>
                \A n \in DOMAIN network'.states :
                  \A i \in 1..Len(network'.states[n]) :
                    network'.states[n][i].k = "tuple"
                    => Len(network'.states[n][i].v) =
                         Cardinality(SeqToSet(network'.states[n][i].v))
           /\ CandidateSets(again.net) = CandidateSets(network')
           /\ ((\A n \in DOMAIN network.states : ~has_tuple(network.states[n]))
               => network'.states = network.states)]_vars

\* a collapse has reduced the entry (1, 2, 1) of a leaf to its two distinct
\* candidates
C24_Witness ==
  /\ op = [name |-> "collapse_ambiguous_characters", ok |-> TRUE]
  /\ ~IsNone(original_character_matrix)
  /\ \E l \in DOMAIN Val(original_character_matrix).rows :
       /\ is_leaf(network, l)
       /\ Val(original_character_matrix).rows[l][1] = Ambiguous(<<1, 2, 1>>)
       /\ SeqToSet(network.states[l][1].v) = {1, 2}
       /\ Len(network.states[l][1].v) = 2

\* the candidates of an ambiguous entry that no other candidate outnumbers
MostFrequent(t) ==
  LET count(x) == Cardinality({i \in 1..Len(t) : t[i] = x})
  IN {x \in SeqToSet(t) : \A y \in SeqToSet(t) : count(y) <= count(x)}

\* C25: after resolve_ambiguous_characters with the default resolver
\* returns, is_ambiguous is false for every node; every entry that was
\* ambiguous holds one of its most frequent candidates; and every entry that
\* was a single state is unchanged.
C25_ResolveLeavesNoAmbiguity ==
  [][(op'.name = "resolve_ambiguous_characters" /\ op'.ok)
     => /\ NodeSet(network') = NodeSet(network)
        /\ \A n \in NodeSet(network') :
             /\ is_ambiguous(network', n) = [val |-> FALSE, ok |-> TRUE]
             /\ Len(network'.states[n]) = Len(network.states[n])
             /\ \A i \in 1..Len(network.states[n]) :
                  IF network.states[n][i].k = "tuple"
                    THEN \E x \in MostFrequent(network.states[n][i].v) :
                           network'.states[n][i] = Scalar(x)
                    ELSE network'.states[n][i] = network.states[n][i]]_vars

\* a resolution has replaced (1, 2, 1) by 1 at one leaf and has drawn the
\* first and the last entry of a leaf with ties apart
C25_Witness ==
  /\ op = [name |-> "resolve_ambiguous_characters", ok |-> TRUE]
  /\ calls = 1
  /\ \E l \in DOMAIN Val(original_character_matrix).rows :
       /\ Val(original_character_matrix).rows[l][1] = Ambiguous(<<1, 2, 1>>)
       /\ network.states[l][1] = Scalar(1)
  /\ \E l \in DOMAIN Val(original_character_matrix).rows :
       /\ \A i \in 1..NumChars :
            Val(original_character_matrix).rows[l][i] = Ambiguous(<<2, 1>>)
       /\ network.states[l][1] = Scalar(2)
       /\ network.states[l][NumChars] = Scalar(1)

\* C26: on an object without a topology each of root, leaves,
\* internal_nodes, nodes, edges, is_leaf, parent, children, get_time,
\* set_time, set_branch_length, add_leaf, remove_leaf_and_prune_lineage,
\* collapse_unifurcations, find_lca and get_distance raises the
\* uninitialized-tree error and leaves the object unchanged.
C26_UninitializedTreeRefusesCalls ==
  [][\A method \in CheckedMethods :
       (network = None /\ CallWithoutTopology(method))
       => /\ ~op'.ok
          /\ network' = None /\ cache' = EmptyCache
          /\ UNCHANGED tables]_vars

\* a second call was refused on an object constructed with a character
\* matrix and without a tree
C26_Witness ==
  /\ network = None
  /\ ~IsNone(current_character_matrix)
  /\ calls = 2
  /\ op = [name |-> "get_distance", ok |-> FALSE]

\* C27: for the root r and every t not greater than the time of any child
\* of r, set_time(r, t) returns normally, stores t as the time of r and makes
\* the length of each edge (r, c) equal to time(c) - t.
C27_SetTimeAtRoot ==
  [][\A n \in Names, t \in Times :
       (/\ has_node(network, n) /\ is_root(network, n)
        /\ \A k \in SeqToSet(children(network, n)) : t <= network.time[k]
        /\ SetTime(n, t))
       => /\ op'.ok
          /\ network'.time = [network.time EXCEPT ![n] = t]
          /\ \A k \in SeqToSet(children(network, n)) :
               network'.length[<<n, k>>] = network.time[k] - t]_vars

\* C28: collapse_unifurcations() removes exactly the nodes that have exactly
\* one child, the root included, and every node with no child or with at
\* least two children survives.
C28_CollapseRemovesUnifurcationsOnly ==
  [][(/\ CollapseUnifurcations(None)
      /\ Len(network.nodes) > 0
      /\ TimeInvariant(network))
     => /\ op'.ok
        /\ NodeSet(network') =
             {n \in NodeSet(network) : Len(children(network, n)) # 1}]_vars

\* exactly one node has no parent, every other node has exactly one parent,
\* and every node is reached from the parentless one (so there is no cycle)
IsRootedTree(g) ==
  /\ Cardinality({n \in NodeSet(g) : Preds(g, n) = {}}) = 1
  /\ \A n \in NodeSet(g) : Cardinality(Preds(g, n)) <= 1
  /\ \A n \in NodeSet(g) : Len(g.succ[n]) = Cardinality(SeqToSet(g.succ[n]))
  /\ LET r == CHOOSE n \in NodeSet(g) : Preds(g, n) = {}
     IN SeqToSet(dfs_preorder_nodes(g, r)) = NodeSet(g)

\* C29: after any sequence of successful add_leaf,
\* remove_leaf_and_prune_lineage, collapse_unifurcations and
\* collapse_mutationless_edges calls the graph is a rooted tree.
C29_SurgeryKeepsARootedTree ==
  allOk => IsRootedTree(network)

\* C30: after any sequence of calls get_character_states(n) returns a
\* vector for every node n of the tree, a leaf just created by add_leaf on a
\* tree without a character matrix included.
C30_EveryNodeHasAStateVector ==
  \A n \in NodeSet(network) : get_character_states(network, n).ok

\* C31: after an add_leaf that returns on a tree with a current character
\* matrix and a dissimilarity map, the new leaf's state vector and matrix
\* row are all missing-state indicators, its dissimilarity to every other
\* leaf is infinite in row and column, and every row and every dissimilarity
\* entry that existed before the call is still there with the same value.
C31_AddLeafRegistersDefaults ==
  [][(/\ op'.name = "add_leaf" /\ op'.ok
      /\ ~IsNone(current_character_matrix) /\ ~IsNone(dissimilarity_map))
     => \A new \in NodeSet(network') \ NodeSet(network) :
          LET rows == Val(current_character_matrix').rows
              dis == Val(dissimilarity_map')
              missing == [i \in 1..Val(current_character_matrix).ncols |-> Missing]
          IN /\ get_character_states(network', new).ok
             /\ get_character_states(network', new).val = missing
             /\ new \in DOMAIN rows /\ rows[new] = missing
             /\ new \in dis.index
             /\ \A l \in SeqToSet(fresh_leaves(network')) \ {new} :
                  /\ l \in dis.index
                  /\ dis.val[<<new, l>>] = Infinity
                  /\ dis.val[<<l, new>>] = Infinity
             /\ \A l \in DOMAIN Val(current_character_matrix).rows :
                  /\ l \in DOMAIN rows
                  /\ rows[l] = Val(current_character_matrix).rows[l]
             /\ \A p \in DOMAIN Val(dissimilarity_map).val :
                  /\ p \in DOMAIN dis.val
                  /\ dis.val[p] = Val(dissimilarity_map).val[p]]_vars

\* ------------------------------------- a matrix that misses some leaves
\* a tree constructed with a character matrix that has rows for some of its
\* leaves only: populate_tree gives the other leaves the empty vector
InitPartialMatrix ==
  \E tree \in ShapesUpTo(MaxNodes) :
    LET L == {n \in SeqToSet(tree.nodes) : Len(tree.succ[n]) = 0}
    IN \E K \in SUBSET L : \E rows \in [K -> LeafVectors] :
         Constructed(tree, Some(Matrix(rows)), FALSE)

SpecPartialMatrix == InitPartialMatrix /\ [][NextCharacters]_vars

\* C32: a reconstruct_ancestral_characters call that raises because a leaf
\* has the empty state vector leaves the state vector of every internal
\* node as it was before the call.
C32_FailedReconstructionAppliesNothing ==
  [][(/\ op'.name = "reconstruct_ancestral_characters" /\ ~op'.ok
      /\ \E l \in NodeSet(network) :
           is_leaf(network, l) /\ get_character_states(network, l).val = <<>>)
     => \A n \in NodeSet(network) :
          is_internal_node(network, n).val
            => get_character_states(network', n) = get_character_states(network, n)]_vars

\* C33: in every state reached by distance queries and time or branch
\* length setters, get_distance(a, b) and get_distance(b, a) return the
\* same value for all nodes a and b of the tree.
C33_GetDistanceIsSymmetric ==
  \A a \in NodeSet(network), b \in NodeSet(network) :
    get_distance(network, cache, a, b).val = get_distance(network, cache, b, a).val

\* ------------------------------------------------ times below zero
\* time_dict arguments that give every node a time, negative times included
SignedTimes == (-1)..MaxTime

SignedTimeDicts(g) == {ItemsOf(f) : f \in [NodeSet(g) -> SignedTimes]}

NextSignedTimes ==
  \/ Next
  \/ \E d \in SignedTimeDicts(network) : SetTimes(d)

SpecSignedTimes == Init /\ [][NextSignedTimes]_vars

\* C34: in every state reached by set_time, set_times, set_branch_length,
\* set_branch_lengths and surgery calls that all returned normally, the time
\* of every node is at least 0.
C34_TimesAreNonNegative ==
  allOk => \A n \in NodeSet(network) : get_time(network, n) >= 0

\* C35: in every state reached by mutating calls that all returned normally,
\* get_time(n) is the sum of the edge lengths on the path from the root to
\* n, for every node n; in particular get_time(root) = 0.
C35_TimeIsPathLengthFromRoot ==
  (allOk /\ IsRootedTree(network))
  => \A n \in NodeSet(network) :
       get_time(network, n) = PathLength(network, fresh_roots(network)[1], n)

\* ------------------------------------------- the loop of find_lca, by round
\* While a find_lca call is inside its while loop, frame holds the set of
\* its arguments and the current value of the local variable `nodes`.
InLoop == ~IsNone(frame)
LoopArgs == Val(frame).args
LoopNodes == Val(frame).nodes

\* find_lca(*args) up to the first test of the while condition: the call
\* raises on fewer than two distinct arguments and otherwise stands at the
\* while test with nodes = set(args); nothing of the object was read yet
FindLcaEnter(args) ==
  LET S == SeqToSet(args)
  IN /\ calls < MaxCalls
     /\ ~InLoop
     /\ IF ~check_network_initialized(network) \/ Cardinality(S) < 2
          THEN Returned("find_lca", FALSE)
        ELSE /\ frame' = Some([args |-> S, nodes |-> S])
             /\ op' = [name |-> "find_lca", ok |-> FALSE]
             /\ calls' = calls + 1
             /\ UNCHANGED <<allOk, held>>
     /\ UNCHANGED <<network, cache, tables>>

\* find_lcas_of_pairs(itertools.combinations(S, 2)), consumed by the caller:
\* self.root is read (and cached) when the generator is made, and networkx
\* raises NodeNotFound for a pair with a node that is not in the graph
find_lcas_of_pairs(g, c, S) ==
  LET r == root(g, c)
  IN IF ~r.ok \/ ~(S \subseteq NodeSet(g))
       THEN [val |-> {}, cache |-> r.cache, ok |-> FALSE]
     ELSE [val |-> pairwise_lcas(g, S), cache |-> r.cache, ok |-> TRUE]

\* one pass through the body of the while loop; a pass that raises ends the
\* call
FindLcaIterate ==
  LET lcas == find_lcas_of_pairs(network, cache, LoopNodes)
  IN /\ InLoop
     /\ Cardinality(LoopNodes) > 1
     /\ cache' = lcas.cache
     /\ IF lcas.ok
          THEN /\ frame' = Some([args |-> LoopArgs, nodes |-> lcas.val])
               /\ UNCHANGED <<op, allOk>>
        ELSE /\ frame' = None
             /\ op' = [name |-> "find_lca", ok |-> FALSE]
             /\ allOk' = FALSE
     /\ UNCHANGED <<network, tables, calls, held>>

\* the while condition is false: return list(nodes)[0]
FindLcaReturn ==
  /\ InLoop
  /\ Cardinality(LoopNodes) <= 1
  /\ frame' = None
  /\ op' = [name |-> "find_lca", ok |-> Cardinality(LoopNodes) = 1]
  /\ allOk' = (allOk /\ Cardinality(LoopNodes) = 1)
  /\ UNCHANGED <<network, cache, tables, calls, held>>

NextLcaLoop ==
  \/ \E args \in LcaArgs(network) : FindLcaEnter(args)
  \/ FindLcaIterate
  \/ FindLcaReturn

\* the loop is sequential code: an enabled pass or return is taken
SpecLcaLoop ==
  /\ InitLca
  /\ [][NextLcaLoop]_vars
  /\ WF_vars(FindLcaIterate)
  /\ WF_vars(FindLcaReturn)

\* C36: in a find_lca call on two or more distinct nodes of the tree, every
\* pass through the while loop replaces the current set by a strictly
\* smaller, non-empty set (the LCAs of its 2-combinations), and the call
\* leaves the loop with exactly one node, which is the value find_lca
\* computes for its arguments; every call that entered the loop leaves it.
C36_FindLcaLoopTerminates ==
  /\ [][(InLoop /\ frame' # frame /\ LoopArgs \subseteq NodeSet(network))
        => IF ~IsNone(frame')
             THEN /\ Val(frame').nodes = pairwise_lcas(network, LoopNodes)
                  /\ Cardinality(Val(frame').nodes) < Cardinality(LoopNodes)
                  /\ Cardinality(Val(frame').nodes) >= 1
             ELSE /\ op'.ok
                  /\ LoopNodes = {find_lca(network, cache, LoopArgs).val}]_vars
  /\ (InLoop ~> ~InLoop)

\* a call on three nodes is inside the loop after a pass that left two
\* nodes, one of which was not among the arguments
C36_Witness ==
  /\ InLoop
  /\ Cardinality(LoopArgs) = 3
  /\ Cardinality(LoopNodes) = 2
  /\ ~(LoopNodes \subseteq LoopArgs)

\* C37: in every reachable state, the states left behind by calls that
\* raised included, every edge has a length of at least 0 and the time of
\* its parent end is at most the time of its child end.
C37_LengthsAndTimesStayMonotone ==
  \A e \in EdgeSet(network) :
    /\ e \in DOMAIN network.length => network.length[e] >= 0
    /\ (e[1] \in DOMAIN network.time /\ e[2] \in DOMAIN network.time)
         => get_time(network, e[1]) <= get_time(network, e[2])

\* C38: on a tree of two or more nodes, after every add_leaf,
\* remove_leaf_and_prune_lineage, collapse_unifurcations (from any source)
\* and collapse_mutationless_edges call the root is the node that was the
\* root before the call.
C38_SurgeryKeepsTheRoot ==
  [][(/\ Cardinality(NodeSet(network)) >= 2
      /\ op'.name \in {"add_leaf", "remove_leaf_and_prune_lineage",
                       "collapse_unifurcations", "collapse_mutationless_edges"})
     => fresh_roots(network') = fresh_roots(network)]_vars

\* two surgery calls returned, the first child of the constructed root is
\* gone, and the tree still has two or more nodes below the same root
C38_Witness ==
  /\ allOk /\ calls = MaxCalls
  /\ "a" \notin NodeSet(network)
  /\ Cardinality(NodeSet(network)) >= 2
  /\ fresh_roots(network) = <<"r">>

\* C39: once the root is the only node of the tree, every add_leaf call
\* raises and leaves the tree as it is, and no add_leaf,
\* remove_leaf_and_prune_lineage, collapse_unifurcations or
\* collapse_mutationless_edges call ever gives the tree a second node.
C39_RootAloneIsADeadEnd ==
  /\ [][(Len(network.nodes) = 1 /\ op'.name = "add_leaf")
        => (~op'.ok /\ network' = network)]_vars
  /\ [](Len(network.nodes) = 1 => [](Len(network.nodes) <= 1))

\* pruning has left the root alone and the add_leaf call that followed
\* has raised
C39_Witness ==
  /\ calls = MaxCalls
  /\ network.nodes = <<"r">>
  /\ op.name = "add_leaf" /\ ~op.ok

\* ------------------------------------------------ lineage group assignment
\* preprocess/call_lineage_utils.py.  A pivot table of UMI counts has one row
\* per cell and one column per intBC: index is the row labels in order,
\* ncols the number of columns (labelled 1..ncols) and row[cell][c] the count.
MaxCells == 3
MaxIntBCs == 2
MaxUmi == 2

PivotTable(v, n, m) ==
  [index |-> [k \in 1..n |-> k], ncols |-> m, row |-> v]

PivotTables ==
  UNION {{PivotTable(v, n, m) : v \in [1..n -> [1..m -> 0..MaxUmi]]}
         : <<n, m>> \in (0..MaxCells) \X (0..MaxIntBCs)}

\* thresholds are fractions <<numerator, denominator>> that a float holds
\* exactly, so that the code's float comparisons are integer comparisons
MinClustSizes == 0..(MaxCells - 1)
MinIntbcThreshs == {<<1, 2>>, <<1, 1>>}
KinshipThreshs == {<<0, 1>>, <<1, 4>>, <<2, 1>>}

\* PIVOT_in.sum(0)[c]
RECURSIVE column_sum(_, _, _)
column_sum(P, c, k) ==
  IF k = 0 THEN 0 ELSE P.row[P.index[k]][c] + column_sum(P, c, k - 1)

\* the candidates for intBC_sums.index[0]: sort_values does not fix the
\* order of equal sums
intBC_tops(P) ==
  {c \in 1..P.ncols :
     \A d \in 1..P.ncols :
       column_sum(P, c, Len(P.index)) >= column_sum(P, d, Len(P.index))}

\* PIV_set.sum(axis=1)[cell]
RECURSIVE f_inset(_, _, _, _)
f_inset(P, intBC_set, cell, m) ==
  IF m = 0 THEN 0
  ELSE (IF m \in intBC_set THEN P.row[cell][m] ELSE 0)
       + f_inset(P, intBC_set, cell, m - 1)

\* PIVOT_in.iloc[mask, :]
iloc_rows(P, keep) ==
  LET idx == SelectSeq(P.index, LAMBDA cell : cell \in keep)
  IN [index |-> idx, ncols |-> P.ncols,
      row |-> [cell \in SeqToSet(idx) |-> P.row[cell]]]

\* the cells find_top_lg puts in the group formed around intBC_top
LG_cells(PIVOT_in, min_intbc_prop, kinship_thresh, intBC_top) ==
  LET subPIVOT_in == {cell \in SeqToSet(PIVOT_in.index) :
                        PIVOT_in.row[cell][intBC_top] > 0}
      subPIVOT_in_sums2 ==
        [c \in 1..PIVOT_in.ncols |->
           Cardinality({cell \in subPIVOT_in : PIVOT_in.row[cell][c] > 0})]
      total == subPIVOT_in_sums2[intBC_top]
      intBC_set == {c \in 1..PIVOT_in.ncols :
                      subPIVOT_in_sums2[c] * min_intbc_prop[2]
                        >= min_intbc_prop[1] * total}
  IN {cell \in SeqToSet(PIVOT_in.index) :
        f_inset(PIVOT_in, intBC_set, cell, PIVOT_in.ncols) * kinship_thresh[2]
          >= kinship_thresh[1]}

\* find_top_lg that returns the whole input table as the unassigned rest
find_top_lg_keep_assigned(PIVOT_in, iteration, min_intbc_prop, kinship_thresh, intBC_top) ==
  LET cells == LG_cells(PIVOT_in, min_intbc_prop, kinship_thresh, intBC_top)
  IN [PIV_LG |-> [table |-> iloc_rows(PIVOT_in, cells),
                  lineageGrp |-> iteration + 1],
      PIV_noLG |-> PIVOT_in]

\* find_top_lg, with intBC_top the column sort_values put first
find_top_lg(PIVOT_in, iteration, min_intbc_prop, kinship_thresh, intBC_top) ==
  LET cells == LG_cells(PIVOT_in, min_intbc_prop, kinship_thresh, intBC_top)
  IN [PIV_LG |-> [table |-> iloc_rows(PIVOT_in, cells),
                  lineageGrp |-> iteration + 1],
      PIV_noLG |-> iloc_rows(PIVOT_in,
                             SeqToSet(PIVOT_in.index) \ cells)]

\* piv_assigned.append(piv_lg): the rows of piv_lg, each with its group
append(piv_assigned, piv_lg) ==
  piv_assigned \o
    [k \in 1..Len(piv_lg.table.index) |->
       [cell |-> piv_lg.table.index[k],
        umis |-> piv_lg.table.row[piv_lg.table.index[k]],
        lineageGrp |-> piv_lg.lineageGrp]]

\* While an assign_lineage_groups call is running, frame holds its
\* arguments and the local variables of its while loop.
InAssign == ~IsNone(frame)

\* assign_lineage_groups up to the first test of the while condition
AssignLineageGroupsEnter(pivot_in, min_clust_size, min_intbc_thresh, kinship_thresh) ==
  /\ calls < MaxCalls
  /\ ~InAssign
  /\ frame' = Some([pivot_in |-> pivot_in,
                    min_clust_size |-> min_clust_size,
                    min_intbc_thresh |-> min_intbc_thresh,
                    kinship_thresh |-> kinship_thresh,
                    piv_assigned |-> <<>>,
                    prev_clust_size |-> Infinity,
                    i |-> 0])
  /\ op' = [name |-> "assign_lineage_groups", ok |-> FALSE]
  /\ calls' = calls + 1
  /\ UNCHANGED <<network, cache, tables, allOk, held>>

\* one pass through the body of the while loop
AssignLineageGroupsIterate ==
  /\ InAssign
  /\ Val(frame).prev_clust_size > Val(frame).min_clust_size
  /\ \E intBC_top \in intBC_tops(Val(frame).pivot_in) :
       LET f == Val(frame)
           r == find_top_lg(f.pivot_in, f.i, f.min_intbc_thresh,
                            f.kinship_thresh, intBC_top)
       IN frame' = Some([f EXCEPT
                           !.piv_assigned = append(f.piv_assigned, r.PIV_LG),
                           !.pivot_in = r.PIV_noLG,
                           !.prev_clust_size = Len(r.PIV_LG.table.index),
                           !.i = f.i + 1])
  /\ UNCHANGED <<network, cache, tables, op, allOk, calls, held>>

\* intBC_sums.index[0] of a table without columns raises IndexError
AssignLineageGroupsRaise ==
  /\ InAssign
  /\ Val(frame).prev_clust_size > Val(frame).min_clust_size
  /\ Val(frame).pivot_in.ncols = 0
  /\ frame' = None
  /\ op' = [name |-> "assign_lineage_groups", ok |-> FALSE]
  /\ allOk' = FALSE
  /\ UNCHANGED <<network, cache, tables, calls, held>>

\* the while condition is false: return piv_assigned
AssignLineageGroupsReturn ==
  /\ InAssign
  /\ Val(frame).prev_clust_size <= Val(frame).min_clust_size
  /\ frame' = None
  /\ op' = [name |-> "assign_lineage_groups", ok |-> TRUE]
  /\ UNCHANGED <<network, cache, tables, allOk, calls, held>>

\* no tree object is involved: the function works on its arguments alone
InitLineage ==
  /\ network = None
  /\ cache = EmptyCache
  /\ current_character_matrix = None
  /\ original_character_matrix = None
  /\ cell_meta = None
  /\ dissimilarity_map = None
  /\ op = [name |-> "import", ok |-> TRUE]
  /\ allOk = TRUE
  /\ calls = 0
  /\ held = None
  /\ frame = None

\* the function is called again only after the running call has ended
NextLineage ==
  \/ /\ ~InAssign
     /\ \E pivot_in \in PivotTables, min_clust_size \in MinClustSizes,
           min_intbc_thresh \in MinIntbcThreshs,
           kinship_thresh \in KinshipThreshs :
          AssignLineageGroupsEnter(pivot_in, min_clust_size,
                                   min_intbc_thresh, kinship_thresh)
  \/ AssignLineageGroupsIterate
  \/ AssignLineageGroupsRaise
  \/ AssignLineageGroupsReturn

\* the loop is sequential code: an enabled pass, raise or return is taken
SpecLineage ==
  /\ InitLineage
  /\ [][NextLineage]_vars
  /\ WF_vars(AssignLineageGroupsIterate)
  /\ WF_vars(AssignLineageGroupsRaise)
  /\ WF_vars(AssignLineageGroupsReturn)

\* the cells of the rows k..Len(a) of an assigned table
AssignedCells(a, k) == {a[j].cell : j \in k..Len(a)}

\* after i passes the groups 1..i appear in this order, every group but
\* the last is non-empty, and no cell has two rows
NumberedInOrder(a, i) ==
  /\ \A k \in 1..Len(a) : a[k].lineageGrp \in 1..i
  /\ \A k \in 1..(Len(a) - 1) : a[k].lineageGrp <= a[k + 1].lineageGrp
  /\ \A g \in 1..(i - 1) : \E k \in 1..Len(a) : a[k].lineageGrp = g
  /\ \A k, j \in 1..Len(a) : a[k].cell = a[j].cell => k = j

\* C40: every assign_lineage_groups call ends.  A pass of its loop runs
\* only after a group of more than min_clust_size cells (or at the start);
\* it labels the cells of its group with the pass number, takes exactly
\* these cells out of the unassigned pool, and none of them was assigned
\* before.  After a group of at most min_clust_size cells the call returns
\* without another pass.  The call raises only on a table without columns,
\* before its first pass forms a group.  The groups are numbered 1, 2, ...
\* in the order formed.
C40_AssignLineageGroupsTerminates ==
  /\ [][(InAssign /\ ~IsNone(frame') /\ frame' # frame)
        => LET f == Val(frame)
               f2 == Val(frame')
               n == Len(f.piv_assigned)
               group == AssignedCells(f2.piv_assigned, n + 1)
           IN /\ f.prev_clust_size > f.min_clust_size
              /\ f2.i = f.i + 1
              /\ SubSeq(f2.piv_assigned, 1, n) = f.piv_assigned
              /\ \A k \in (n + 1)..Len(f2.piv_assigned) :
                   f2.piv_assigned[k].lineageGrp = f.i + 1
              /\ f2.prev_clust_size = Len(f2.piv_assigned) - n
              /\ f2.prev_clust_size = Cardinality(group)
              /\ group \subseteq SeqToSet(f.pivot_in.index)
              /\ SeqToSet(f2.pivot_in.index)
                   = SeqToSet(f.pivot_in.index) \ group
              /\ group \cap AssignedCells(f.piv_assigned, 1) = {}
              /\ f2.min_clust_size = f.min_clust_size]_vars
  /\ [][(InAssign /\ Val(frame).prev_clust_size <= Val(frame).min_clust_size)
        => (frame' = None /\ op'.ok)]_vars
  /\ [][(InAssign /\ frame' = None /\ ~op'.ok)
        => (Val(frame).pivot_in.ncols = 0 /\ Val(frame).i = 0)]_vars
  /\ [](InAssign => NumberedInOrder(Val(frame).piv_assigned, Val(frame).i))
  /\ (InAssign ~> ~InAssign)

\* two passes have formed the groups 1 and 2, each larger than
\* min_clust_size, and cells are still unassigned when the third pass starts
C40_Witness ==
  /\ InAssign
  /\ Val(frame).i = 2
  /\ Val(frame).prev_clust_size > Val(frame).min_clust_size
  /\ Val(frame).pivot_in.index # <<>>
  /\ \E k \in 1..Len(Val(frame).piv_assigned) :
       Val(frame).piv_assigned[k].lineageGrp = 1

\* ----------------------------------------------- the other public writers
\* set_attribute(node, attribute_name, value): a bare write into the node's
\* attribute dict.  The model keeps the attributes "time" and
\* "character_states"; any other attribute changes nothing it keeps.
set_attribute(g, node, attribute_name, value) ==
  IF ~check_network_initialized(g) THEN [net |-> g, ok |-> FALSE]
  ELSE IF ~has_node(g, node) THEN [net |-> g, ok |-> FALSE]
  ELSE IF attribute_name = "time"
    THEN [net |-> set_node_time(g, node, value), ok |-> TRUE]
  ELSE IF attribute_name = "character_states"
    THEN [net |-> set_node_states(g, node, value), ok |-> TRUE]
  ELSE [net |-> g, ok |-> TRUE]

\* the row labels of a frame are node names (Python str) or integers
IntLabels == {ToString(k) : k \in (0 - Infinity)..Infinity}

\* type(i) == str
is_str(i) == ToString(i) \notin IntLabels

\* initialize_character_states_at_leaves(character_matrix): the matrix (or
\* the frame built from a dict) must have exactly the leaves as its index;
\* an index with a label that is no string differs from every set of leaves
initialize_character_states_at_leaves(g, c, ccm, ocm, character_matrix) ==
  IF ~check_network_initialized(g)
    THEN [net |-> g, cache |-> c, ccm |-> ccm, ocm |-> ocm, ok |-> FALSE]
  ELSE LET ls == leaves(g, c)
       IN IF \/ \E i \in DOMAIN character_matrix.rows : ~is_str(i)
             \/ SeqToSet(ls.val) # DOMAIN character_matrix.rows
            THEN [net |-> g, cache |-> ls.cache, ccm |-> ccm, ocm |-> ocm,
                  ok |-> FALSE]
          ELSE [net |-> [g EXCEPT !.states =
                           [n \in (DOMAIN g.states) \cup SeqToSet(ls.val) |->
                              IF n \in SeqToSet(ls.val)
                                THEN character_matrix.rows[n]
                              ELSE g.states[n]]],
                cache |-> ls.cache,
                ccm |-> Some(character_matrix),
                ocm |-> Some(character_matrix),
                ok |-> TRUE]

\* set_character_matrix(character_matrix): an index with a label that is no
\* string is refused before anything is written; otherwise both matrices
\* are replaced before the leaves are written; `if self.__network` is false
\* for None and for a graph without nodes
set_character_matrix(g, c, ccm, ocm, character_matrix) ==
  IF \E i \in DOMAIN character_matrix.rows : ~is_str(i)
    THEN [net |-> g, cache |-> c, ccm |-> ccm, ocm |-> ocm, ok |-> FALSE]
  ELSE IF check_network_initialized(g) /\ Len(g.nodes) > 0
    THEN initialize_character_states_at_leaves(g, c, Some(character_matrix),
                                               Some(character_matrix),
                                               character_matrix)
  ELSE [net |-> g, cache |-> c, ccm |-> Some(character_matrix),
        ocm |-> Some(character_matrix), ok |-> TRUE]

\* the column count of DataFrame.from_dict(rows, orient="index") for rows of
\* one length
Width(rows) ==
  IF DOMAIN rows = {} THEN 0
  ELSE Len(rows[CHOOSE n \in DOMAIN rows : TRUE])

\* initialize_all_character_states(character_state_mapping)
initialize_all_character_states(g, c, ccm, ocm, character_state_mapping) ==
  IF ~check_network_initialized(g)
    THEN [net |-> g, cache |-> c, ccm |-> ccm, ocm |-> ocm, ok |-> FALSE]
  ELSE LET ns == nodes(g, c)
           rows == [n \in {x \in SeqToSet(ns.val) : is_leaf(g, x)} |->
                      character_state_mapping[n]]
           character_matrix == [rows |-> rows, ncols |-> Width(rows)]
       IN IF DOMAIN character_state_mapping # SeqToSet(ns.val)
            THEN [net |-> g, cache |-> ns.cache, ccm |-> ccm, ocm |-> ocm,
                  ok |-> FALSE]
          ELSE [net |-> [g EXCEPT !.states =
                           [n \in (DOMAIN g.states) \cup SeqToSet(ns.val) |->
                              IF n \in SeqToSet(ns.val)
                                THEN character_state_mapping[n]
                              ELSE g.states[n]]],
                cache |-> ns.cache,
                ccm |-> Some(character_matrix),
                ocm |-> Some(character_matrix),
                ok |-> TRUE]

\* set_dissimilarity_map(dissimilarity_map): a mismatch with the character
\* matrix only warns
set_dissimilarity_map(ccm, dissimilarity_map_) == Some(dissimilarity_map_)

\* the callables handed to compute_dissimilarity_map
DissimilarityFunctions == {"zero", "mismatches"}

dissimilarity_function(name, s1, s2) ==
  IF name = "zero" THEN 0
  ELSE Cardinality({i \in 1..Len(s1) : s1[i] # s2[i]})

\* compute_dissimilarity_map(dissimilarity_function): the callable applied to
\* every pair of rows of the current matrix (by utilities.
\* compute_dissimilarity_map), made square with a zero diagonal and indexed
\* like the matrix; the 1 x 1 square of no rows does not fit an empty index
compute_dissimilarity_map(ccm, dis, name) ==
  IF IsNone(ccm) THEN [dis |-> dis, ok |-> FALSE]
  ELSE IF DOMAIN Val(ccm).rows = {} THEN [dis |-> dis, ok |-> FALSE]
  ELSE [dis |-> set_dissimilarity_map(ccm,
                  [index |-> DOMAIN Val(ccm).rows,
                   val |-> [p \in (DOMAIN Val(ccm).rows) \X (DOMAIN Val(ccm).rows) |->
                              IF p[1] = p[2] THEN 0
                              ELSE dissimilarity_function(name,
                                     Val(ccm).rows[p[1]], Val(ccm).rows[p[2]])]]),
        ok |-> TRUE]

SetAttribute(node, attribute_name, value) ==
  LET r == set_attribute(network, node, attribute_name, value)
  IN /\ calls < MaxCalls
     /\ network' = r.net
     /\ Returned("set_attribute", r.ok)
     /\ UNCHANGED <<cache, tables>>

SetCharacterMatrix(character_matrix) ==
  LET r == set_character_matrix(network, cache, current_character_matrix,
                                original_character_matrix, character_matrix)
  IN /\ calls < MaxCalls
     /\ network' = r.net
     /\ cache' = r.cache
     /\ current_character_matrix' = r.ccm
     /\ original_character_matrix' = r.ocm
     /\ Returned("set_character_matrix", r.ok)
     /\ UNCHANGED <<cell_meta, dissimilarity_map>>

InitializeCharacterStatesAtLeaves(character_matrix) ==
  LET r == initialize_character_states_at_leaves(
             network, cache, current_character_matrix,
             original_character_matrix, character_matrix)
  IN /\ calls < MaxCalls
     /\ network' = r.net
     /\ cache' = r.cache
     /\ current_character_matrix' = r.ccm
     /\ original_character_matrix' = r.ocm
     /\ Returned("initialize_character_states_at_leaves", r.ok)
     /\ UNCHANGED <<cell_meta, dissimilarity_map>>

InitializeAllCharacterStates(character_state_mapping) ==
  LET r == initialize_all_character_states(
             network, cache, current_character_matrix,
             original_character_matrix, character_state_mapping)
  IN /\ calls < MaxCalls
     /\ network' = r.net
     /\ cache' = r.cache
     /\ current_character_matrix' = r.ccm
     /\ original_character_matrix' = r.ocm
     /\ Returned("initialize_all_character_states", r.ok)
     /\ UNCHANGED <<cell_meta, dissimilarity_map>>

SetDissimilarityMap(dissimilarity_map_) ==
  /\ calls < MaxCalls
  /\ dissimilarity_map' =
       set_dissimilarity_map(current_character_matrix, dissimilarity_map_)
  /\ Returned("set_dissimilarity_map", TRUE)
  /\ UNCHANGED <<network, cache, current_character_matrix,
                 original_character_matrix, cell_meta>>

ComputeDissimilarityMap(name) ==
  LET r == compute_dissimilarity_map(current_character_matrix,
                                     dissimilarity_map, name)
  IN /\ calls < MaxCalls
     /\ dissimilarity_map' = r.dis
     /\ Returned("compute_dissimilarity_map", r.ok)
     /\ UNCHANGED <<network, cache, current_character_matrix,
                    original_character_matrix, cell_meta>>

\* character matrices handed in by the caller: a row for every leaf, or a
\* row for leaf b alone
MatrixArgs(g) ==
  {Matrix(rows) : rows \in [SeqToSet(fresh_leaves(g)) -> LeafVectors]}
    \cup {Matrix(rows) : rows \in [{"b"} -> LeafVectors]}

\* a frame with the default index of pandas: rows under the labels 0 and 1
RangeIndexMatrices ==
  {Matrix([i \in 0..1 |-> [j \in 1..NumChars |-> Scalar(j)]])}

\* state mappings: one vector for every node, or for every node but the root
MappingArgs(g) ==
  UNION {{[n \in NodeSet(g) |-> v], [n \in NodeSet(g) \ {"r"} |-> v]}
         : v \in LeafVectors}

\* dissimilarity maps over the leaves, or over leaf b and a sample that is
\* no node of the tree
DissimilarityMapArgs(g) ==
  {[index |-> I, val |-> [p \in I \X I |-> IF p[1] = p[2] THEN 0 ELSE d]]
     : I \in {SeqToSet(fresh_leaves(g)), {"b", "x"}}, d \in 1..2}

\* writes of the time attribute
TimeAttributeWrites ==
  \E n \in Names, t \in Times : SetAttribute(n, "time", t)

MatrixWrites ==
  \/ \E m \in MatrixArgs(network) : SetCharacterMatrix(m)
  \/ \E m \in RangeIndexMatrices : SetCharacterMatrix(m)
  \/ \E m \in MatrixArgs(network) : InitializeCharacterStatesAtLeaves(m)
  \/ \E m \in RangeIndexMatrices : InitializeCharacterStatesAtLeaves(m)
  \/ \E m \in MappingArgs(network) : InitializeAllCharacterStates(m)
  \/ \E n \in Names, states \in StateArgs :
       SetAttribute(n, "character_states", states)

DissimilarityWrites ==
  \/ \E d \in DissimilarityMapArgs(network) : SetDissimilarityMap(d)
  \/ \E name \in DissimilarityFunctions : ComputeDissimilarityMap(name)

\* the setters and the surgery together with the bare time writes
NextAttributes == Next \/ TimeAttributeWrites

SpecAttributes == Init /\ [][NextAttributes]_vars

\* the surgery together with every call that replaces the character data or
\* the dissimilarity map
NextOperations == TopologySurgery \/ MatrixWrites \/ DissimilarityWrites

SpecOperations == Init /\ [][NextOperations]_vars

====
